---------------------------- MODULE Spec2Model ----------------------------
(***************************************************************************)
(* Verification model of the CI scripts of moved_maker (.github/scripts):  *)
(* the version calculator (version, release-version) and the Conventional  *)
(* Commit classifiers (pr-labels, release-notes).                          *)
(*                                                                         *)
(* A Python str is modelled as a sequence of one-character strings, so     *)
(* that formatting (f-strings), parsing (regular expressions, int()) and   *)
(* searching (in, split, startswith) are computed character by character.  *)
(***************************************************************************)
EXTENDS Integers, Sequences, FiniteSets, TLC

(***************************************************************************)
(* Bounds of the model                                                     *)
(***************************************************************************)
MaxComponent == 2
MaxCommitCount == 2
MaxPrNumber == 2
MaxCommits == 2
MaxCargoCalls == 2
\* the longest list of merged pull requests
MaxPrs == 3
\* the closed pull requests of a listing and the latest second on the clock
MaxListed == 3
MaxTime == 3
\* the commits of a history
MaxHistory == 3
\* the runs of a script on one repository
MaxRuns == 2
\* the tags of a repository
MaxTags == 3
\* the tests of a run that passed, failed or were skipped
MaxTests == 4
\* the commits of one section of the release notes
MaxSectionCommits == 2

(***************************************************************************)
(* Characters and strings                                                  *)
(***************************************************************************)
DigitSeq == <<"0", "1", "2", "3", "4", "5", "6", "7", "8", "9">>
LowerSeq == <<"a", "b", "c", "d", "e", "f", "g", "h", "i", "j", "k", "l", "m",
              "n", "o", "p", "q", "r", "s", "t", "u", "v", "w", "x", "y", "z">>
UpperSeq == <<"A", "B", "C", "D", "E", "F", "G", "H", "I", "J", "K", "L", "M",
              "N", "O", "P", "Q", "R", "S", "T", "U", "V", "W", "X", "Y", "Z">>

Range(f) == {f[i] : i \in DOMAIN f}

IsDigit(c) == c \in Range(DigitSeq)
IsLower(c) == c \in Range(LowerSeq)
IsUpper(c) == c \in Range(UpperSeq)
\* str.isalnum() of one character
IsAlnumChar(c) == IsDigit(c) \/ IsLower(c) \/ IsUpper(c)
\* the regular expression class \w
IsWordChar(c) == IsAlnumChar(c) \/ c = "_"
\* the regular expression class \s
IsSpaceChar(c) == c \in {" ", "\t", "\n", "\r"}

IndexIn(seq, c) == CHOOSE i \in DOMAIN seq : seq[i] = c
DigitVal(c) == IndexIn(DigitSeq, c) - 1
LowerChar(c) == IF IsUpper(c) THEN LowerSeq[IndexIn(UpperSeq, c)] ELSE c
\* str.lower()
Lower(s) == [i \in DOMAIN s |-> LowerChar(s[i])]

\* s[i:] and s[:n] of Python, 1-based here
Drop(s, n) == SubSeq(s, n + 1, Len(s))
Take(s, n) == SubSeq(s, 1, n)
Min(a, b) == IF a < b THEN a ELSE b
Max(a, b) == IF a < b THEN b ELSE a

\* s[i..] starts with the string t
StartsAt(s, i, t) ==
    /\ i >= 1
    /\ i + Len(t) - 1 <= Len(s)
    /\ \A k \in 1..Len(t) : s[i + k - 1] = t[k]
\* str.startswith
StartsWith(s, t) == StartsAt(s, 1, t)
\* the operator "t in s" on strings
Contains(s, t) == \E i \in 1..(Len(s) - Len(t) + 1) : StartsAt(s, i, t)
\* str.find, 0 when absent, else the 1-based index of the first occurrence
Find(s, t) ==
    IF Contains(s, t)
    THEN CHOOSE i \in 1..(Len(s) - Len(t) + 1) :
            /\ StartsAt(s, i, t)
            /\ \A j \in 1..(i - 1) : ~StartsAt(s, j, t)
    ELSE 0
\* str.rfind, 0 when absent
RFind(s, t) ==
    IF Contains(s, t)
    THEN CHOOSE i \in 1..(Len(s) - Len(t) + 1) :
            /\ StartsAt(s, i, t)
            /\ \A j \in (i + 1)..(Len(s) - Len(t) + 1) : ~StartsAt(s, j, t)
    ELSE 0

\* the decimal rendering of an int by an f-string
RECURSIVE FormatNat(_)
FormatNat(n) ==
    IF n < 10 THEN <<DigitSeq[n + 1]>>
    ELSE FormatNat(n \div 10) \o <<DigitSeq[(n % 10) + 1]>>
FormatInt(n) == IF n < 0 THEN <<"-">> \o FormatNat(0 - n) ELSE FormatNat(n)

\* int() of a non-empty string of digits
RECURSIVE DigitsToNat(_)
DigitsToNat(s) ==
    IF Len(s) = 0 THEN 0
    ELSE 10 * DigitsToNat(Take(s, Len(s) - 1)) + DigitVal(s[Len(s)])
IsDigits(s) == Len(s) >= 1 /\ \A i \in DOMAIN s : IsDigit(s[i])

\* first index >= i of s that holds no digit (Len(s) + 1 when none)
RECURSIVE SpanDigits(_, _)
SpanDigits(s, i) ==
    IF i <= Len(s) /\ IsDigit(s[i]) THEN SpanDigits(s, i + 1) ELSE i

DOT == <<".">>

\* str.strip(): leading and trailing whitespace removed
RECURSIVE LStrip(_)
LStrip(s) == IF Len(s) > 0 /\ IsSpaceChar(s[1]) THEN LStrip(Tail(s)) ELSE s
RECURSIVE RStrip(_)
RStrip(s) ==
    IF Len(s) > 0 /\ IsSpaceChar(s[Len(s)]) THEN RStrip(Take(s, Len(s) - 1)) ELSE s
Strip(s) == RStrip(LStrip(s))

\* str.split(sep) for a one-character separator: the list of the fields
RECURSIVE SplitOn(_, _)
SplitOn(s, c) ==
    LET i == Find(s, <<c>>)
    IN IF i = 0 THEN <<s>>
       ELSE <<Take(s, i - 1)>> \o SplitOn(Drop(s, i), c)

(***************************************************************************)
(* packaging.version: the PEP 440 grammar (VERSION_PATTERN) that Version() *)
(* and parse() match, anchored at both ends, ignoring case and surrounding *)
(* whitespace.  Each optional group is matched greedily in order; every    *)
(* Match* operator returns the position after its group, and the position  *)
(* it was given when the optional group is absent.                         *)
(***************************************************************************)
PreTags == << <<"a", "l", "p", "h", "a">>, <<"a">>, <<"b", "e", "t", "a">>, <<"b">>,
              <<"p", "r", "e", "v", "i", "e", "w">>, <<"p", "r", "e">>,
              <<"c">>, <<"r", "c">> >>
PostTags == << <<"p", "o", "s", "t">>, <<"r", "e", "v">>, <<"r">> >>
DevTags == << <<"d", "e", "v">> >>

\* length of the first alternative of tags found at s[i..], 0 when none
RECURSIVE MatchAlt(_, _, _)
MatchAlt(s, i, tags) ==
    IF Len(tags) = 0 THEN 0
    ELSE IF StartsAt(s, i, Head(tags)) THEN Len(Head(tags))
    ELSE MatchAlt(s, i, Tail(tags))

IsSepAt(s, i) == i <= Len(s) /\ s[i] \in {"-", "_", "."}
SkipSep(s, i) == IF IsSepAt(s, i) THEN i + 1 ELSE i

\* [-_\.]? (tag) [-_\.]? [0-9]*
MatchTagged(s, i, tags) ==
    LET j == SkipSep(s, i)
        n == MatchAlt(s, j, tags)
    IN IF n = 0 THEN i ELSE SpanDigits(s, SkipSep(s, j + n))

\* (?:-[0-9]+) | (?:[-_\.]? (post|rev|r) [-_\.]? [0-9]*)
MatchPost(s, i) ==
    IF i < Len(s) /\ s[i] = "-" /\ IsDigit(s[i + 1])
    THEN SpanDigits(s, i + 1)
    ELSE MatchTagged(s, i, PostTags)

\* [0-9]+ (?: \. [0-9]+ )*  ; 0 when s[i..] starts with no release segment
RECURSIVE ReleaseEnd(_, _)
ReleaseEnd(s, i) ==
    LET e == SpanDigits(s, i)
    IN IF e = i THEN 0
       ELSE IF e < Len(s) /\ s[e] = "." /\ IsDigit(s[e + 1])
            THEN ReleaseEnd(s, e + 1)
            ELSE e

RECURSIVE SpanAlnum(_, _)
SpanAlnum(s, i) ==
    IF i <= Len(s) /\ IsAlnumChar(s[i]) THEN SpanAlnum(s, i + 1) ELSE i

\* [a-z0-9]+ (?: [-_\.] [a-z0-9]+ )* ; 0 when s[i..] starts with no such text
RECURSIVE LocalEnd(_, _)
LocalEnd(s, i) ==
    LET e == SpanAlnum(s, i)
    IN IF e = i THEN 0
       ELSE IF e < Len(s) /\ IsSepAt(s, e) /\ IsAlnumChar(s[e + 1])
            THEN LocalEnd(s, e + 1)
            ELSE e

\* (?: \+ local )?
MatchLocal(s, i) ==
    IF i < Len(s) /\ s[i] = "+" /\ LocalEnd(s, i + 1) # 0
    THEN LocalEnd(s, i + 1)
    ELSE i

\* the release tuple of the text s[i..j-1] = N(.N)*
ReleaseTuple(s) ==
    LET parts == SplitOn(s, ".")
    IN [k \in DOMAIN parts |-> DigitsToNat(parts[k])]

NoVersion == [valid |-> FALSE, release |-> <<>>]

\* Version(text): valid iff the whole text matches; release is Version.release
Version(text) ==
    LET s  == Lower(Strip(text))
        p1 == IF StartsAt(s, 1, <<"v">>) THEN 2 ELSE 1
        d  == SpanDigits(s, p1)
        p2 == IF d > p1 /\ d <= Len(s) /\ s[d] = "!" THEN d + 1 ELSE p1
        r  == ReleaseEnd(s, p2)
    IN IF r = 0 THEN NoVersion
       ELSE LET p3 == MatchTagged(s, r, PreTags)
                p4 == MatchPost(s, p3)
                p5 == MatchTagged(s, p4, DevTags)
                p6 == MatchLocal(s, p5)
            IN IF p6 = Len(s) + 1
               THEN [valid |-> TRUE, release |-> ReleaseTuple(SubSeq(s, p2, r - 1))]
               ELSE NoVersion

(***************************************************************************)
(* Results of a call: a returned string, or a raised exception             *)
(***************************************************************************)
Pending == [status |-> "pending", value |-> <<>>, exc |-> "none"]
Returned(v) == [status |-> "returned", value |-> v, exc |-> "none"]
Raised(e) == [status |-> "raised", value |-> <<>>, exc |-> e]
\* InvalidVersion is a subclass of ValueError
ValueErrors == {"ValueError", "InvalidVersion"}

\* f"{major}.{minor}.{patch}"
Dotted(major, minor, patch) ==
    FormatInt(major) \o DOT \o FormatInt(minor) \o DOT \o FormatInt(patch)

\* BumpedVersion with a minor bump that forgets to reset the patch component
BumpedVersion_KeepsPatch(release, bump_type, commit_count) ==
    IF bump_type = "MAJOR" THEN Dotted(release[1] + 1, 0, 0)
    ELSE IF bump_type = "MINOR" THEN Dotted(release[1], release[2] + 1, release[3])
    ELSE Dotted(release[1], release[2], release[3] + commit_count)

\* the f-string of the branch of bump_type
BumpedVersion(release, bump_type, commit_count) ==
    IF bump_type = "MAJOR" THEN Dotted(release[1] + 1, 0, 0)
    ELSE IF bump_type = "MINOR" THEN Dotted(release[1], release[2] + 1, 0)
    ELSE Dotted(release[1], release[2], release[3] + commit_count)

\* version.version.calculate_version
calculate_version(base_version, bump_type, commit_count) ==
    LET parsed_version == Version(base_version)
    IN IF ~parsed_version.valid THEN Raised("InvalidVersion")
       ELSE IF Len(parsed_version.release) < 3 THEN Raised("InvalidVersion")
       ELSE LET new_version == BumpedVersion(parsed_version.release, bump_type, commit_count)
            IN IF ~Version(new_version).valid THEN Raised("InvalidVersion")
               ELSE Returned(new_version)

\* release_version.version.calculate_version: the f-string is returned as it is
rv_calculate_version(base_version, bump_type, commit_count) ==
    LET parsed_version == Version(base_version)
    IN IF ~parsed_version.valid THEN Raised("InvalidVersion")
       ELSE IF Len(parsed_version.release) < 3 THEN Raised("InvalidVersion")
       ELSE Returned(BumpedVersion(parsed_version.release, bump_type, commit_count))

(***************************************************************************)
(* Conventional Commit parsing (release-notes parser.py, pr-labels          *)
(* __main__.py and parser.py)                                              *)
(***************************************************************************)
NL == "\n"
BREAKING_CHANGE ==
    <<"B", "R", "E", "A", "K", "I", "N", "G", " ", "C", "H", "A", "N", "G", "E", ":">>
BREAKING_HYPHEN_CHANGE ==
    <<"B", "R", "E", "A", "K", "I", "N", "G", "-", "C", "H", "A", "N", "G", "E", ":">>
FEAT == <<"f", "e", "a", "t">>
FEATURE == <<"f", "e", "a", "t", "u", "r", "e">>
OTHER_TYPE == <<"o", "t", "h", "e", "r">>

\* message.split("\n", 1)[0]: the first line
FirstLine(message) ==
    LET i == Find(message, <<NL>>)
    IN IF i = 0 THEN message ELSE Take(message, i - 1)
HasBody(message) == Find(message, <<NL>>) # 0
\* the text after the first newline ("" when there is none)
RestLines(message) ==
    LET i == Find(message, <<NL>>)
    IN IF i = 0 THEN <<>> ELSE Drop(message, i)

RECURSIVE SpanWord(_, _)
SpanWord(s, i) ==
    IF i <= Len(s) /\ IsWordChar(s[i]) THEN SpanWord(s, i + 1) ELSE i

NoMatch ==
    [matched |-> FALSE, type |-> <<>>, has_scope |-> FALSE, scope |-> <<>>,
     bang |-> FALSE, subject |-> <<>>]

\* MatchHeader with a pattern that lacks the (!)? group
MatchHeader_WithoutBang(h) ==
    LET w == SpanWord(h, 1)
        close == IF w <= Len(h) /\ h[w] = "(" THEN Find(Drop(h, w), <<")">>) ELSE 0
        has_scope == close >= 2
        q == IF has_scope THEN w + close + 1 ELSE w
    IN IF w > 1 /\ q < Len(h) /\ h[q] = ":"
       THEN LET rest == Drop(h, q)
                text == LStrip(rest)
            IN [matched |-> TRUE,
                type |-> Take(h, w - 1),
                has_scope |-> has_scope,
                scope |-> IF has_scope THEN SubSeq(h, w + 1, w + close - 1) ELSE <<>>,
                bang |-> FALSE,
                subject |-> IF text = <<>> THEN <<rest[Len(rest)]>> ELSE text]
       ELSE NoMatch

\* re.match(r"^(\w+)(?:\(([^)]+)\))?(!)?:\s*(.+)$", subject) on a one-line subject:
\* the groups of the match, or NoMatch
MatchHeader(h) ==
    LET w == SpanWord(h, 1)
        close == IF w <= Len(h) /\ h[w] = "(" THEN Find(Drop(h, w), <<")">>) ELSE 0
        has_scope == close >= 2
        p == IF has_scope THEN w + close + 1 ELSE w
        bang == p <= Len(h) /\ h[p] = "!"
        q == IF bang THEN p + 1 ELSE p
    IN IF w > 1 /\ q < Len(h) /\ h[q] = ":"
       THEN LET rest == Drop(h, q)
                text == LStrip(rest)
            IN [matched |-> TRUE,
                type |-> Take(h, w - 1),
                has_scope |-> has_scope,
                scope |-> IF has_scope THEN SubSeq(h, w + 1, w + close - 1) ELSE <<>>,
                bang |-> bang,
                subject |-> IF text = <<>> THEN <<rest[Len(rest)]>> ELSE text]
       ELSE NoMatch

\* release_notes.parser._has_breaking_change_footer
has_breaking_change_footer(has_body, body) ==
    IF ~has_body \/ body = <<>> THEN FALSE
    ELSE Contains(body, BREAKING_CHANGE) \/ Contains(body, BREAKING_HYPHEN_CHANGE)

\* release_notes.parser.parse_commit_message
rn_parse_commit_message(message) ==
    LET subject == FirstLine(message)
        has_body == HasBody(message)
        body == RestLines(message)
        match == MatchHeader(subject)
    IN IF match.matched
       THEN [type |-> match.type,
             has_scope |-> match.has_scope,
             scope |-> match.scope,
             subject |-> match.subject,
             has_body |-> has_body,
             body |-> body,
             is_breaking |-> match.bang \/ has_breaking_change_footer(has_body, body)]
       ELSE [type |-> OTHER_TYPE,
             has_scope |-> FALSE,
             scope |-> <<>>,
             subject |-> subject,
             has_body |-> has_body,
             body |-> body,
             is_breaking |-> FALSE]

\* "if not is_breaking and body: is_breaking = <marker> in body", as written in
\* parse_commit_message (lines 40-41) and in check_pr_title_body (lines 97-98)
BreakingOrMarker(is_breaking, body) ==
    IF ~is_breaking /\ body # <<>>
    THEN Contains(body, BREAKING_CHANGE) \/ Contains(body, BREAKING_HYPHEN_CHANGE)
    ELSE is_breaking

\* pr_labels.__main__.parse_commit_message from the match on: lines 31-43
PlParsed(match, body) ==
    [type |-> IF match.matched THEN Lower(match.type) ELSE OTHER_TYPE,
     is_breaking |-> BreakingOrMarker(match.matched /\ match.bang, body)]

\* pr_labels.__main__.parse_commit_message: (commit_type, is_breaking)
pl_parse_commit_message(message) ==
    PlParsed(MatchHeader(FirstLine(message)), RestLines(message))

(***************************************************************************)
(* Version labels                                                          *)
(***************************************************************************)
LabelResult(v, a) == [version_label |-> v, alt_label |-> a]
MajorLabels == LabelResult("version: major", "breaking")
MinorLabels == LabelResult("version: minor", "feature")
PatchLabels == LabelResult("version: patch", "")
\* parse_commits returns (None, None) for a patch
NoneLabels == LabelResult("None", "None")
\* check_pr_title_body returns ("", "") without a signal
NoLabels == LabelResult("", "")

\* the loop of determine_version_bump over commits[i..], with its break:
\* BumpLoop parses commits[i], BumpStep is the loop body on the parsed commit
RECURSIVE BumpLoop(_, _, _), BumpStep(_, _, _, _)
BumpStep(commits, i, has_feature, parsed) ==
    IF parsed.is_breaking
    THEN [has_breaking |-> TRUE, has_feature |-> has_feature]
    ELSE BumpLoop(commits, i + 1, has_feature \/ parsed.type \in {FEAT, FEATURE})
BumpLoop(commits, i, has_feature) ==
    IF i > Len(commits) THEN [has_breaking |-> FALSE, has_feature |-> has_feature]
    ELSE BumpStep(commits, i, has_feature, pl_parse_commit_message(commits[i]))

\* the labels determine_version_bump returns for the flags of its loop
BumpLabels(flags) ==
    IF flags.has_breaking THEN MajorLabels
    ELSE IF flags.has_feature THEN MinorLabels
    ELSE PatchLabels

\* pr_labels.__main__.determine_version_bump
determine_version_bump(commits) == BumpLabels(BumpLoop(commits, 1, FALSE))

\* the loop of pr_labels.parser.parse_commits over commits[i..], with its break
RECURSIVE ParseCommitsLoop(_, _, _)
ParseCommitsLoop(commits, i, labels) ==
    IF i > Len(commits) THEN labels
    ELSE LET message == commits[i]
         IN IF message = <<>> THEN ParseCommitsLoop(commits, i + 1, labels)
            ELSE IF Contains(message, BREAKING_CHANGE) \/ Contains(message, <<"!", ":">>)
                 THEN MajorLabels
            ELSE IF labels.version_label = "None" /\ StartsWith(message, FEAT \o <<":">>)
                 THEN ParseCommitsLoop(commits, i + 1, MinorLabels)
            ELSE ParseCommitsLoop(commits, i + 1, labels)

\* pr_labels.parser.parse_commits
parse_commits(commits) == ParseCommitsLoop(commits, 1, NoneLabels)

\* check_pr_title_body from the parsed title on: lines 96-105
TitleBodyLabels(parsed, body) ==
    IF BreakingOrMarker(parsed.is_breaking, body) THEN MajorLabels
    ELSE IF parsed.type \in {FEAT, FEATURE} THEN MinorLabels
    ELSE NoLabels

\* check_pr_title_body that reads the title only
check_pr_title_body_TitleOnly(title, body) ==
    TitleBodyLabels(pl_parse_commit_message(title), <<>>)

\* pr_labels.__main__.check_pr_title_body
check_pr_title_body(title, body) ==
    TitleBodyLabels(pl_parse_commit_message(title), body)

\* CombineLabels that lets any differing PR signal replace the commit decision
CombineLabels_PrSignalWins(commit_labels, pr_labels) ==
    IF pr_labels.version_label # "" /\ pr_labels.version_label # commit_labels.version_label
    THEN pr_labels
    ELSE commit_labels

\* pr_labels.__main__.main, lines 310-326: the commit-derived labels combined
\* with the supplemental signal of the PR title and body
CombineLabels(commit_labels, pr_labels) ==
    IF pr_labels.version_label # "" /\ pr_labels.version_label # commit_labels.version_label
    THEN IF pr_labels.version_label = "version: major" THEN pr_labels
         ELSE IF pr_labels.version_label = "version: minor"
                 /\ commit_labels.version_label = "version: patch"
              THEN pr_labels
         ELSE commit_labels
    ELSE commit_labels

(***************************************************************************)
(* The manifest reader (version/cargo.py).  A manifest is the record       *)
(*   [exists, toml_ok, has_package, has_version, version]                  *)
(* of what Path.exists(), tomlkit.parse() and the lookups give.            *)
(***************************************************************************)
IsSemverIdentChar(c) == IsAlnumChar(c) \/ c = "-"
\* (0|[1-9]\d*)
IsNumericIdent(s) == IsDigits(s) /\ (Len(s) = 1 \/ s[1] # "0")
\* [0-9A-Za-z-]+(?:\.[0-9A-Za-z-]+)*
IsDottedIdents(s) ==
    LET ids == SplitOn(s, ".")
    IN \A k \in DOMAIN ids :
          Len(ids[k]) >= 1 /\ \A i \in DOMAIN ids[k] : IsSemverIdentChar(ids[k][i])

\* version.cargo._split_version_with_build_metadata: the split at the last "+"
split_version_with_build_metadata(version) ==
    LET last_plus == RFind(version, <<"+">>)
    IN IF last_plus # 0
       THEN [base_version |-> Take(version, last_plus - 1),
             has_build |-> TRUE,
             build_metadata |-> Drop(version, last_plus)]
       ELSE [base_version |-> version, has_build |-> FALSE, build_metadata |-> <<>>]

\* version.cargo._validate_semver_format: TRUE iff it does not raise
validate_semver_format(version) ==
    LET dash == Find(version, <<"-">>)
        core == IF dash = 0 THEN version ELSE Take(version, dash - 1)
        nums == SplitOn(core, ".")
    IN /\ Len(nums) = 3
       /\ \A k \in 1..3 : IsNumericIdent(nums[k])
       /\ dash # 0 => IsDottedIdents(Drop(version, dash))

\* version.cargo._validate_build_metadata: TRUE iff it does not raise
validate_build_metadata(build_metadata) ==
    build_metadata # <<>> /\ IsDottedIdents(build_metadata)

\* version.cargo.read_cargo_version
read_cargo_version(manifest) ==
    IF ~manifest.exists THEN Raised("FileNotFoundError")
    ELSE IF ~manifest.toml_ok THEN Raised("ValueError")
    ELSE IF ~manifest.has_package THEN Raised("ValueError")
    ELSE IF ~manifest.has_version THEN Raised("ValueError")
    ELSE LET version == manifest.version
         IN IF version = <<>> THEN Raised("ValueError")
            ELSE IF StartsWith(version, <<"v">>) \/ StartsWith(version, <<"V">>)
                 THEN Raised("ValueError")
            ELSE LET split == split_version_with_build_metadata(version)
                 IN IF split.has_build
                    THEN IF ~validate_semver_format(split.base_version)
                         THEN Raised("ValueError")
                         ELSE IF ~validate_build_metadata(split.build_metadata)
                              THEN Raised("ValueError")
                              ELSE Returned(version)
                    ELSE IF ~Version(version).valid THEN Raised("ValueError")
                         ELSE Returned(version)

(***************************************************************************)
(* PR versions (version/version.py)                                        *)
(***************************************************************************)
ShaLength == 7

\* shorten_commit_sha that validates the SHA and returns it whole
shorten_commit_sha_Whole(sha, length) ==
    IF sha = <<>> THEN Raised("ValueError")
    ELSE IF length < 1 THEN Raised("ValueError")
    ELSE IF ~(\A i \in DOMAIN sha : IsAlnumChar(sha[i])) THEN Raised("ValueError")
    ELSE Returned(sha)

\* version.version.shorten_commit_sha
shorten_commit_sha(sha, length) ==
    IF sha = <<>> THEN Raised("ValueError")
    ELSE IF length < 1 THEN Raised("ValueError")
    ELSE IF ~(\A i \in DOMAIN sha : IsAlnumChar(sha[i])) THEN Raised("ValueError")
    ELSE Returned(Take(sha, Min(length, Len(sha))))

\* the bump that the last PR alone asks for
determine_bump_type_LastPrDecides(prs) ==
    IF prs = <<>> THEN "PATCH"
    ELSE IF prs[Len(prs)] \cap {"version: major", "breaking"} # {} THEN "MAJOR"
    ELSE IF prs[Len(prs)] \cap {"version: minor", "feature"} # {} THEN "MINOR"
    ELSE "PATCH"

\* version.version.determine_bump_type; prs is the list of the PRs' label sets
determine_bump_type(prs) ==
    LET IsMajor(labels) == labels \cap {"version: major", "breaking"} # {}
        IsMinor(labels) == labels \cap {"version: minor", "feature"} # {}
        major_bump == \E i \in DOMAIN prs : IsMajor(prs[i])
        minor_bump == \E i \in DOMAIN prs : ~IsMajor(prs[i]) /\ IsMinor(prs[i])
    IN IF major_bump THEN "MAJOR"
       ELSE IF minor_bump THEN "MINOR"
       ELSE "PATCH"

\* str.lstrip("v")
RECURSIVE LStripV(_)
LStripV(s) == IF Len(s) > 0 /\ s[1] = "v" THEN LStripV(Tail(s)) ELSE s

\* f"{base_new_version}-pr{pr_number}+{short_sha}"
FormatPrVersion(base_new_version, pr_number, short_sha) ==
    base_new_version \o <<"-", "p", "r">> \o FormatInt(pr_number) \o <<"+">> \o short_sha

Outcome(result, trace) == [result |-> result, trace |-> trace]

\* version.version.calculate_pr_version, lines 350-392: from the merged PRs on.
\* env holds what the collaborators answer; trace lists the collaborators used.
PrVersionFromPrs(base_version, pr_number, commit_sha, env, trace) ==
    LET trace_prs == Append(trace, "github")
    IN IF env.prs_fail THEN Outcome(Raised("GithubException"), trace_prs)
       ELSE
       LET bump == determine_bump_type(env.prs)
           trace_count == IF bump = "PATCH" THEN Append(trace_prs, "git rev-list")
                          ELSE trace_prs
       IN IF bump = "PATCH" /\ env.count_fail
          THEN Outcome(Raised("ValueError"), trace_count)
          ELSE
          LET count == IF bump = "PATCH" THEN env.commit_count ELSE 0
              base_new_version == calculate_version(base_version, bump, count)
          IN IF base_new_version.status = "raised"
             THEN Outcome(base_new_version, trace_count)
             ELSE
             LET short_sha == shorten_commit_sha(commit_sha, ShaLength)
             IN IF short_sha.status = "raised" THEN Outcome(short_sha, trace_count)
                ELSE IF ~Version(base_new_version.value).valid
                     THEN Outcome(Raised("ValueError"), trace_count)
                ELSE Outcome(Returned(FormatPrVersion(base_new_version.value,
                                                      pr_number, short_sha.value)),
                             trace_count)

\* version.version.calculate_pr_version
calculate_pr_version(pr_number, commit_sha, env) ==
    IF pr_number < 1 THEN Outcome(Raised("ValueError"), <<>>)
    ELSE IF commit_sha = <<>> THEN Outcome(Raised("ValueError"), <<>>)
    ELSE
    LET latest_tag == env.latest_tag
        trace_tag == <<"git describe">>
    IN IF latest_tag = <<>>
       THEN LET cargo == read_cargo_version(env.manifest)
                trace_cargo == Append(trace_tag, "Cargo.toml")
            IN IF cargo.status = "raised" THEN Outcome(cargo, trace_cargo)
               ELSE PrVersionFromPrs(cargo.value, pr_number, commit_sha, env, trace_cargo)
       ELSE LET base_version == LStripV(latest_tag)
            IN IF ~Version(base_version).valid
               THEN Outcome(Raised("ValueError"), trace_tag)
               ELSE IF env.timestamp_fail
                    THEN Outcome(Raised("ValueError"), Append(trace_tag, "git log"))
                    ELSE PrVersionFromPrs(base_version, pr_number, commit_sha, env,
                                          Append(trace_tag, "git log"))


(***************************************************************************)
(* The manifest reader of release-version and the manifest writers         *)
(* (version/cargo.py, release_version/cargo.py).  A manifest file is the   *)
(* record [exists, toml_ok, has_package, has_version, version, others]:    *)
(* others stands for every entry but package.version (the package name,    *)
(* [dependencies], ...).                                                   *)
(***************************************************************************)
\* release_version.cargo.read_cargo_version: no check of the version's format
rv_read_cargo_version(manifest) ==
    IF ~manifest.exists THEN Raised("FileNotFoundError")
    ELSE IF ~manifest.toml_ok THEN Raised("ValueError")
    ELSE IF ~manifest.has_package THEN Raised("ValueError")
    ELSE IF ~manifest.has_version THEN Raised("ValueError")
    ELSE IF manifest.version = <<>> THEN Raised("ValueError")
    ELSE Returned(manifest.version)

\* read_cargo_version of the package pkg ("version" or "release-version")
ReadCargo(pkg, manifest) ==
    IF pkg = "version" THEN read_cargo_version(manifest)
    ELSE rv_read_cargo_version(manifest)

\* what a call of update_cargo_version did: its result (returned TRUE or FALSE,
\* or raised), the file it leaves and whether it wrote to the file
Updated(status, value, exc, file, wrote) ==
    [status |-> status, value |-> value, exc |-> exc, file |-> file, wrote |-> wrote]

\* no file at the path
NoCargoToml ==
    [exists |-> FALSE, toml_ok |-> FALSE, has_package |-> FALSE, has_version |-> FALSE,
     version |-> <<>>, others |-> "none"]

\* open(cargo_path, "w") has truncated the file and f.write() has not completed
TruncatedFile ==
    [exists |-> TRUE, toml_ok |-> TRUE, has_package |-> FALSE, has_version |-> FALSE,
     version |-> <<>>, others |-> "none"]

\* WrittenFile that writes a manifest holding the [package] table only
WrittenFile_DropsOthers(file, version) ==
    [file EXCEPT !.has_version = TRUE, !.version = version, !.others = "name"]

\* cargo["package"]["version"] = version; f.write(tomlkit.dumps(cargo))
WrittenFile(file, version) ==
    [file EXCEPT !.has_version = TRUE, !.version = version]

\* update_cargo_version from "Verify update" on: the file has been written
VerifyUpdate(version, written, updated_version) ==
    IF updated_version.status = "raised"
    THEN Updated("raised", FALSE, updated_version.exc, written, TRUE)
    ELSE IF updated_version.value # version
    THEN Updated("raised", FALSE, "ValueError", written, TRUE)
    ELSE Updated("returned", TRUE, "none", written, TRUE)

\* update_cargo_version from "Write back" on; io is what the file system does:
\* "ok", "open_fails" (open() raises, the file is untouched) or "write_fails"
\* (open() has truncated the file and write() raises)
WriteBack(pkg, file, version, io) ==
    IF io = "open_fails" THEN Updated("raised", FALSE, "OSError", file, FALSE)
    ELSE IF io = "write_fails" THEN Updated("raised", FALSE, "OSError", TruncatedFile, TRUE)
    ELSE VerifyUpdate(version, WrittenFile(file, version),
                      ReadCargo(pkg, WrittenFile(file, version)))

\* CompareAndWrite without the comparison: it writes whatever the file holds
CompareAndWrite_AlwaysWrites(pkg, file, version, io, current_version) ==
    IF current_version.status = "raised"
    THEN Updated("raised", FALSE, current_version.exc, file, FALSE)
    ELSE WriteBack(pkg, file, version, io)

\* update_cargo_version from the comparison with the current version on
CompareAndWrite(pkg, file, version, io, current_version) ==
    IF current_version.status = "raised"
    THEN Updated("raised", FALSE, current_version.exc, file, FALSE)
    ELSE IF current_version.value = version
    THEN Updated("returned", FALSE, "none", file, FALSE)
    ELSE WriteBack(pkg, file, version, io)

\* update_cargo_version of the package pkg: the two functions have the same text
\* and call the read_cargo_version of their own package
UpdateCargo(pkg, file, version, io) ==
    IF ~file.exists THEN Updated("raised", FALSE, "FileNotFoundError", file, FALSE)
    ELSE IF version = <<>> THEN Updated("raised", FALSE, "ValueError", file, FALSE)
    ELSE CompareAndWrite(pkg, file, version, io, ReadCargo(pkg, file))

\* version.cargo.update_cargo_version
update_cargo_version(file, version, io) == UpdateCargo("version", file, version, io)
\* release_version.cargo.update_cargo_version
rv_update_cargo_version(file, version, io) ==
    UpdateCargo("release-version", file, version, io)

(***************************************************************************)
(* pr-labels: taking the conflicting labels off a pull request and putting *)
(* the decided ones on (labeler.py and __main__.py)                        *)
(***************************************************************************)
\* VERSION_LABELS + SEMANTIC_LABELS, in the order apply_labels walks them
ConflictingLabels ==
    <<"version: major", "version: minor", "version: patch", "breaking", "feature">>

\* labels_to_remove of __main__.apply_labels
LabelsToRemove == { ConflictingLabels[i] : i \in 1..Len(ConflictingLabels) }

\* GitHub's answer to pr.remove_from_labels(label): 200 takes the label off,
\* 404 says the label is not on the pull request (never was, or is gone by
\* now), anything else is a failure of the service
RemoveFromLabels(on, fault, label) ==
    IF fault[label] = "error" THEN 500
    ELSE IF label \notin on \/ fault[label] = "gone" THEN 404
    ELSE 200

\* a labelling run: the labels on the pull request, the API calls made so
\* far, and whether an exception is on its way out
Run(on, calls, status) == [on |-> on, calls |-> calls, status |-> status]

ApiCall(op, label, answer) == [op |-> op, label |-> label, answer |-> answer]

\* the effect of one removal call answered with `answer`; `raises` says
\* whether the caller re-raises a failure that is not a 404
Removal(run, label, answer, raises) ==
    Run(IF answer \in {200, 404} THEN run.on \ {label} ELSE run.on,
        Append(run.calls, ApiCall("remove", label, answer)),
        IF answer \notin {200, 404} /\ raises THEN "raised" ELSE run.status)

\* labeler.remove_label: a 404 is ignored, any other failure is printed and raised
remove_label(run, fault, label) ==
    Removal(run, label, RemoveFromLabels(run.on, fault, label), TRUE)

\* the removal loop of labeler.apply_labels: every conflicting label, in
\* order, until a removal raises
RECURSIVE RemoveConflicting(_, _, _)
RemoveConflicting(run, fault, i) ==
    IF i > Len(ConflictingLabels) \/ run.status = "raised" THEN run
    ELSE RemoveConflicting(remove_label(run, fault, ConflictingLabels[i]), fault, i + 1)

\* one round of the removal loop of __main__.apply_labels: only labels of
\* the snapshot current_labels, nothing in a dry run, a 404 ignored and any
\* other failure printed
MainRemoval(run, current_labels, fault, dry_run, label) ==
    IF label \notin current_labels \/ dry_run THEN run
    ELSE Removal(run, label, RemoveFromLabels(run.on, fault, label), FALSE)

\* the removal loop of __main__.apply_labels.  The loop walks a set; its
\* rounds do not depend on one another, so one order stands for all
RECURSIVE RemoveOld(_, _, _, _, _)
RemoveOld(run, current_labels, fault, dry_run, i) ==
    IF i > Len(ConflictingLabels) THEN run
    ELSE RemoveOld(MainRemoval(run, current_labels, fault, dry_run, ConflictingLabels[i]),
                   current_labels, fault, dry_run, i + 1)

\* one call that either succeeds or raises GithubException
Attempt(run, op, label, ok) ==
    IF run.status = "raised" \/ label = "" THEN run
    ELSE Run(IF ok /\ op = "add" THEN run.on \cup {label} ELSE run.on,
             Append(run.calls, ApiCall(op, label, IF ok THEN 200 ELSE 500)),
             IF ok THEN run.status ELSE "raised")

\* labeler.ensure_label_exists and labeler.add_label
ensure_label_exists(run, label, ok) == Attempt(run, "ensure", label, ok)
add_label(run, label, ok) == Attempt(run, "add", label, ok)

\* the labels to put on, after the removals: ensure both, then add both
ApplyNew(run, version_label, alt_label, add_fault) ==
    IF version_label = "" THEN run
    ELSE add_label(
           add_label(
             ensure_label_exists(
               ensure_label_exists(run, version_label, add_fault # "ensure"),
               alt_label, add_fault # "ensure"),
             version_label, add_fault # "add"),
           alt_label, add_fault # "add")

\* labeler.apply_labels(pr, repo), from the decision of parse_commits on
labeler_apply_labels(on, fault, version_label, alt_label, add_fault) ==
    ApplyNew(RemoveConflicting(Run(on, <<>>, "running"), fault, 1),
             version_label, alt_label, add_fault)

\* an add loop that puts no label on
AddNew_AddsNothing(run, version_label, alt_label, add_fault, dry_run) == run

\* the add loop of __main__.apply_labels: nothing in a dry run, a failure raised
AddNew(run, version_label, alt_label, add_fault, dry_run) ==
    IF dry_run THEN run
    ELSE add_label(add_label(run, version_label, add_fault # "add"),
                   alt_label, add_fault # "add")

\* __main__.apply_labels(pr, version_label, alt_label, dry_run)
main_apply_labels(on, fault, version_label, alt_label, add_fault, dry_run) ==
    AddNew(RemoveOld(Run(on, <<>>, "running"), on, fault, dry_run, 1),
           version_label, alt_label, add_fault, dry_run)

\* a run that came to its end without an exception
Finished(run) == [run EXCEPT !.status = IF @ = "running" THEN "returned" ELSE @]

(***************************************************************************)
(* release_version.version.determine_bump_type                             *)
(***************************************************************************)
\* any(label in labels for label in wanted)
AnyLabel(labels, wanted) == \E label \in wanted : label \in labels

\* the flags (major_bump, minor_bump) after the loop over prs[i..]
RECURSIVE BumpFlags(_, _, _, _)
BumpFlags(prs, i, major_bump, minor_bump) ==
    IF i > Len(prs) THEN <<major_bump, minor_bump>>
    ELSE IF AnyLabel(prs[i], {"version: major", "breaking"})
         THEN BumpFlags(prs, i + 1, TRUE, minor_bump)
    ELSE IF AnyLabel(prs[i], {"version: minor", "feature"})
         THEN BumpFlags(prs, i + 1, major_bump, TRUE)
    ELSE BumpFlags(prs, i + 1, major_bump, minor_bump)

BumpOfFlags(flags) ==
    IF flags[1] THEN "MAJOR" ELSE IF flags[2] THEN "MINOR" ELSE "PATCH"

\* release_version.version.determine_bump_type; prs is the list of the PRs' label sets
rv_determine_bump_type(prs) == BumpOfFlags(BumpFlags(prs, 1, FALSE, FALSE))

(***************************************************************************)
(* create_checksum.__main__.write_checksum_atomic                          *)
(***************************************************************************)
\* where the call goes after the step taken at pc, which succeeded or
\* raised: a failure before the try block leaves the call at once, a
\* failure inside it goes through the handler, which always ends in IOError
StepAfter(pc, ok) ==
    CASE pc = "start" -> IF ok THEN "mkdir_done" ELSE "raised"
      [] pc = "mkdir_done" -> IF ok THEN "created" ELSE "raised"
      [] pc = "created" -> IF ok THEN "written" ELSE "handler"
      [] pc = "written" -> IF ok THEN "flushed" ELSE "handler"
      [] pc = "flushed" -> IF ok THEN "synced" ELSE "handler"
      [] pc = "synced" -> IF ok THEN "closed" ELSE "handler"
      [] pc = "closed" -> IF ok THEN "returned" ELSE "handler"
      [] pc = "handler" -> "raised"

\* what the temporary file can hold on disk after temp_file.write: the line
\* sits in the buffer of the file object, and any part of it may be out
AfterWrite(ok) == IF ok THEN {"empty", "partial", "complete"} ELSE {"empty", "partial"}

\* what it can hold after temp_file.flush
AfterFlush(temp, ok) == IF ok THEN {"complete"} ELSE {temp, "partial"}

\* os.replace(temp_file.name, str(output_path)): the output path takes the
\* temporary file's content in one step, or nothing changes
ReplacedOutput(out, temp, ok) == IF ok THEN temp ELSE out
ReplacedTemp(temp, ok) == IF ok THEN "absent" ELSE temp

\* os.unlink(temp_file.name) in the handler, whose OSError is passed over
Unlinked(temp, ok) == IF ok THEN "absent" ELSE temp

(***************************************************************************)
(* get_commit_count of the version and the release-version packages        *)
(***************************************************************************)
\* a file of the repository: its top-level directory ("" for the root) and
\* its name
RepoPath(dir, name) == [dir |-> dir, name |-> name]

\* the pathspecs of the version package: "src/", "Cargo.toml", "Cargo.lock"
ApplicationPathspecs ==
    { RepoPath("src", ""), RepoPath("", "Cargo.toml"), RepoPath("", "Cargo.lock") }

\* git's pathspec match: a directory takes every file below it, a file itself
PathspecMatches(pathspec, path) ==
    IF pathspec.name = "" THEN path.dir = pathspec.dir
    ELSE path = pathspec

\* a commit is listed when no pathspec is given or one of its files matches one
Listed(commit, pathspecs) ==
    \/ pathspecs = {}
    \/ \E path \in commit, pathspec \in pathspecs : PathspecMatches(pathspec, path)

\* git rev-list --count <range> -- <pathspecs>, on a linear history whose
\* commits from..Len(history) make the range
RECURSIVE RevListCount(_, _, _)
RevListCount(history, from, pathspecs) ==
    IF from > Len(history) THEN 0
    ELSE (IF Listed(history[from], pathspecs) THEN 1 ELSE 0)
         + RevListCount(history, from + 1, pathspecs)

\* the count with the pathspecs left out
get_commit_count_Unfiltered(history, tag_at, since_tag, git_ok) ==
    IF ~git_ok THEN Raised("ValueError")
    ELSE IF since_tag THEN Returned(RevListCount(history, tag_at + 1, {}))
    ELSE Returned(RevListCount(history, 1, {}))

\* version.version.get_commit_count(since_tag): since_tag is false for None,
\* the tag sits on commit tag_at of the history, git_ok is false when git
\* fails (the tag is not there)
get_commit_count(history, tag_at, since_tag, git_ok) ==
    IF ~git_ok THEN Raised("ValueError")
    ELSE IF since_tag THEN Returned(RevListCount(history, tag_at + 1, ApplicationPathspecs))
    ELSE Returned(RevListCount(history, 1, ApplicationPathspecs))

\* release_version.version.get_commit_count(since_tag): the range is always
\* f"{since_tag}..HEAD", which git refuses for None, and no pathspec is given
rv_get_commit_count(history, tag_at, since_tag, git_ok) ==
    IF ~git_ok \/ ~since_tag THEN Raised("ValueError")
    ELSE Returned(RevListCount(history, tag_at + 1, {}))

(***************************************************************************)
(* pr-labels: the whole run, with and without --dry-run (__main__.py)      *)
(***************************************************************************)
\* the labels of the repository, the calls made on it, and whether an
\* exception is on its way out
Ensured(labels, calls, status) == [labels |-> labels, calls |-> calls, status |-> status]

\* the loop of ensure_labels_exist from the i-th required label on, which
\* creates everything whatever dry_run says
RECURSIVE CreateMissing_IgnoresDryRun(_, _, _, _)
CreateMissing_IgnoresDryRun(ensured, dry_run, create_ok, i) ==
    IF i > Len(ConflictingLabels) \/ ensured.status = "raised" THEN ensured
    ELSE IF ConflictingLabels[i] \in ensured.labels
         THEN CreateMissing_IgnoresDryRun(ensured, dry_run, create_ok, i + 1)
    ELSE IF create_ok
         THEN CreateMissing_IgnoresDryRun(
                 Ensured(ensured.labels \cup {ConflictingLabels[i]},
                         Append(ensured.calls, ApiCall("create", ConflictingLabels[i], 201)),
                         ensured.status),
                 dry_run, create_ok, i + 1)
    ELSE Ensured(ensured.labels,
                 Append(ensured.calls, ApiCall("create", ConflictingLabels[i], 500)),
                 "raised")

\* the loop of ensure_labels_exist from the i-th required label on: a label
\* the repository lacks is created, or only announced in a dry run; a failed
\* creation is raised.  required_labels has the keys of ConflictingLabels.
RECURSIVE CreateMissing(_, _, _, _)
CreateMissing(ensured, dry_run, create_ok, i) ==
    IF i > Len(ConflictingLabels) \/ ensured.status = "raised" THEN ensured
    ELSE IF ConflictingLabels[i] \in ensured.labels \/ dry_run
         THEN CreateMissing(ensured, dry_run, create_ok, i + 1)
    ELSE IF create_ok
         THEN CreateMissing(
                 Ensured(ensured.labels \cup {ConflictingLabels[i]},
                         Append(ensured.calls, ApiCall("create", ConflictingLabels[i], 201)),
                         ensured.status),
                 dry_run, create_ok, i + 1)
    ELSE Ensured(ensured.labels,
                 Append(ensured.calls, ApiCall("create", ConflictingLabels[i], 500)),
                 "raised")

\* ensure_labels_exist(repo, dry_run)
ensure_labels_exist(repo_labels, dry_run, list_ok, create_ok) ==
    IF ~list_ok
    THEN Ensured(repo_labels, <<ApiCall("get_labels", "", 500)>>, "raised")
    ELSE CreateMissing(Ensured(repo_labels, <<ApiCall("get_labels", "", 200)>>, "running"),
                       dry_run, create_ok, 1)

\* the end of a run of pr-labels
Labelled(exit, repo_labels, on, calls) ==
    [exit |-> exit, repo_labels |-> repo_labels, on |-> on, calls |-> calls]

\* main from get_pull on: the commits are read, a pull request without any
\* ends the run with 1, the decided labels are applied
LabelPull(ensured, applied, has_commits) ==
    IF ~has_commits
    THEN Labelled(1, ensured.labels, applied.on,
                  ensured.calls \o <<ApiCall("get_pull", "", 200),
                                     ApiCall("get_commits", "", 200)>>)
    ELSE Labelled(IF applied.status = "raised" THEN 1 ELSE 0,
                  ensured.labels, applied.on,
                  ensured.calls \o <<ApiCall("get_pull", "", 200),
                                     ApiCall("get_commits", "", 200)>> \o applied.calls)

\* main of pr-labels once its environment is complete; a GithubException
\* anywhere ends the run with 1
LabelRun(ensured, on, fault, decided, add_fault, dry_run, has_commits) ==
    IF ensured.status = "raised" THEN Labelled(1, ensured.labels, on, ensured.calls)
    ELSE LabelPull(ensured,
                   IF has_commits
                   THEN main_apply_labels(on, fault, decided[1], decided[2], add_fault, dry_run)
                   ELSE Run(on, <<>>, "running"),
                   has_commits)

(***************************************************************************)
(* release_version.github_client.GitHubClient.get_merged_prs_since         *)
(***************************************************************************)
\* a closed pull request as the listing shows it: its number and its
\* timestamps in seconds; merged_at is None for a PR closed without a merge
None == 0
ClosedPr(number, updated_at, merged_at) ==
    [number |-> number, updated_at |-> updated_at, merged_at |-> merged_at]

\* the loop with >= in place of >: a PR merged at the very second of the tag
\* is taken too
RECURSIVE MergedLoop_TakesMergedAtTag(_, _, _, _)
MergedLoop_TakesMergedAtTag(listing, i, since_timestamp, prs) ==
    IF i > Len(listing) THEN prs
    ELSE IF listing[i].updated_at # None /\ listing[i].updated_at < since_timestamp
         THEN prs
    ELSE IF listing[i].merged_at # None /\ listing[i].merged_at >= since_timestamp
         THEN MergedLoop_TakesMergedAtTag(listing, i + 1, since_timestamp,
                                          Append(prs, listing[i]))
    ELSE MergedLoop_TakesMergedAtTag(listing, i + 1, since_timestamp, prs)

\* the loop over repo.get_pulls(state="closed", base="main", sort="updated",
\* direction="desc") from its i-th element on: stop at the first PR updated
\* before since_timestamp, keep the PRs merged after it
RECURSIVE MergedLoop(_, _, _, _)
MergedLoop(listing, i, since_timestamp, prs) ==
    IF i > Len(listing) THEN prs
    ELSE IF listing[i].updated_at # None /\ listing[i].updated_at < since_timestamp
         THEN prs
    ELSE IF listing[i].merged_at # None /\ listing[i].merged_at > since_timestamp
         THEN MergedLoop(listing, i + 1, since_timestamp, Append(prs, listing[i]))
    ELSE MergedLoop(listing, i + 1, since_timestamp, prs)

\* get_merged_prs_since(since_timestamp); api_ok is false when the listing
\* fails, which is printed and raised
get_merged_prs_since(listing, since_timestamp, api_ok) ==
    IF ~api_ok THEN Raised("GithubException")
    ELSE Returned(MergedLoop(listing, 1, since_timestamp, <<>>))

(***************************************************************************)
(* The entry points: what each script does with its environment            *)
(* (pr-labels, version and release-version __main__.py)                    *)
(***************************************************************************)
\* the end of a script: its exit code and what it did on the way, in order.
\* "stderr" is an error message, "client" the construction of the GitHub
\* client, "api" a call of the GitHub API, "manifest" a write of Cargo.toml,
\* "lock" the update of Cargo.lock, "output" the version written to
\* GITHUB_OUTPUT or to standard output.  Progress lines are not recorded.
Exit(code, events) == [exit |-> code, events |-> events]
Fatal(events) == Exit(1, Append(events, "stderr"))

\* args.pr_number or os.environ.get("PR_NUMBER"): the argument is an integer
\* (0 when absent, which `or` skips like None), the variable a string
PrNumberGiven(env) == IF env.arg_pr # 0 THEN FormatNat(env.arg_pr) ELSE env.pr_number

\* pr-labels main from the client on: every call goes to GitHub; a failure of
\* any of them, or a pull request without commits, ends with 1
PlLabelPr(world) ==
    IF world = "api_fails" THEN Fatal(<<"client", "api">>)
    ELSE IF world = "no_commits" THEN Fatal(<<"client", "api", "api", "api", "api">>)
    ELSE Exit(0, <<"client", "api", "api", "api", "api", "api">>)

\* main of pr-labels
pl_script_main(env, world) ==
    IF PrNumberGiven(env) = <<>> THEN Fatal(<<>>)
    ELSE IF ~IsDigits(PrNumberGiven(env)) THEN Fatal(<<>>)
    ELSE IF env.token = "" THEN Fatal(<<>>)
    ELSE IF env.repository = "" THEN Fatal(<<>>)
    ELSE PlLabelPr(world)

\* GitHubClient(token, repo_name) of release-version: it keeps the token and
\* the name and fetches nothing; the repository is fetched on first use
GitHubClientInit(events) == Append(events, "client")

\* GitHubClient(token, repo_name) of the version package
VersionGitHubClientInit(events) == Append(events, "client")

\* writing version and tag_name to GITHUB_OUTPUT, or to standard output
WriteOutput(events, world) ==
    IF world \in {"output_fails", "unchanged_output_fails"} THEN Fatal(events)
    ELSE Exit(0, Append(events, "output"))

\* from update_cargo_version on; always_output is the PR mode of the version
\* script, which writes its output even when the manifest was up to date
UpdateAndOutput(events, world, always_output) ==
    IF world = "update_fails" THEN Fatal(events)
    ELSE IF world = "update_fails_after_write" THEN Fatal(Append(events, "manifest"))
    ELSE IF world \in {"unchanged", "unchanged_output_fails"}
         THEN (IF always_output THEN WriteOutput(events, world) ELSE Exit(0, events))
    ELSE IF world = "lock_fails" THEN Fatal(Append(events, "manifest"))
    ELSE WriteOutput(Append(Append(events, "manifest"), "lock"), world)

\* the calculation of the version, which asks GitHub, and what follows it
CalculateAndUpdate(events, world, always_output) ==
    IF world = "calc_fails" THEN Fatal(Append(events, "api"))
    ELSE UpdateAndOutput(Append(events, "api"), world, always_output)

\* the PR mode of the version script
VersionPrMode(env, events, world) ==
    IF env.pr_number = <<>> THEN Fatal(events)
    ELSE IF ~IsDigits(env.pr_number) THEN Fatal(events)
    ELSE IF env.commit_sha = "" THEN Fatal(events)
    ELSE CalculateAndUpdate(events, world, TRUE)

\* main of the version script once the token and the repository are there
VersionWithClient(env, world) ==
    IF world = "client_fails" THEN Fatal(<<>>)
    ELSE IF env.mode = "pr" THEN VersionPrMode(env, VersionGitHubClientInit(<<>>), world)
    ELSE CalculateAndUpdate(VersionGitHubClientInit(<<>>), world, FALSE)

version_main_NoTokenCheck(env, world) ==
    IF env.repository = "" THEN Fatal(<<>>)
    ELSE VersionWithClient(env, world)

\* main of the version script
version_main(env, world) ==
    IF env.token = "" THEN Fatal(<<>>)
    ELSE IF env.repository = "" THEN Fatal(<<>>)
    ELSE VersionWithClient(env, world)

\* main of the release-version script
release_version_main(env, world) ==
    IF env.token = "" THEN Fatal(<<>>)
    ELSE IF env.repository = "" THEN Fatal(<<>>)
    ELSE IF world = "client_fails" THEN Fatal(<<>>)
    ELSE CalculateAndUpdate(GitHubClientInit(<<>>), world, FALSE)

(***************************************************************************)
(* calculate_new_version of the version and the release-version packages   *)
(***************************************************************************)
\* return (new_version, f"v{new_version}"), or the exception on its way out
VersionAndTag(result, trace) ==
    IF result.status = "raised" THEN Outcome(result, trace)
    ELSE Outcome(Returned(<<result.value, <<"v">> \o result.value>>), trace)

\* version.version.calculate_new_version from the bump type on: the commits
\* are counted for a PATCH bump only
NewVersionOfBump(base_version, bump_type, env, trace) ==
    IF bump_type # "PATCH"
    THEN VersionAndTag(calculate_version(base_version, bump_type, 0), trace)
    ELSE IF env.count_fail
         THEN Outcome(Raised("ValueError"), Append(trace, "git rev-list"))
    ELSE VersionAndTag(calculate_version(base_version, bump_type, env.commit_count),
                       Append(trace, "git rev-list"))

\* version.version.calculate_new_version from the merged PRs on
NewVersionFromPrs(base_version, env, trace) ==
    IF env.prs_fail THEN Outcome(Raised("GithubException"), Append(trace, "github"))
    ELSE NewVersionOfBump(base_version, determine_bump_type(env.prs), env,
                          Append(trace, "github"))

\* the first release: the base version is the manifest's
NewVersionOfFirstRelease(cargo, env, trace) ==
    IF cargo.status = "raised" THEN Outcome(cargo, trace)
    ELSE NewVersionFromPrs(cargo.value, env, trace)

\* version.version.calculate_new_version; env holds what the collaborators
\* answer, the trace of the outcome lists the collaborators used
calculate_new_version(env) ==
    IF env.latest_tag = <<>>
    THEN NewVersionOfFirstRelease(read_cargo_version(env.manifest), env,
                                  <<"git describe", "Cargo.toml">>)
    ELSE IF ~Version(LStripV(env.latest_tag)).valid
         THEN Outcome(Raised("ValueError"), <<"git describe">>)
    ELSE IF env.timestamp_fail
         THEN Outcome(Raised("ValueError"), <<"git describe", "git log">>)
    ELSE NewVersionFromPrs(LStripV(env.latest_tag), env, <<"git describe", "git log">>)

\* release_version.version.calculate_new_version from the bump type on
RvNewVersionOfBump(base_version, bump_type, env, trace) ==
    IF bump_type # "PATCH"
    THEN VersionAndTag(rv_calculate_version(base_version, bump_type, 0), trace)
    ELSE IF env.count_fail
         THEN Outcome(Raised("ValueError"), Append(trace, "git rev-list"))
    ELSE VersionAndTag(rv_calculate_version(base_version, bump_type, env.commit_count),
                       Append(trace, "git rev-list"))

\* release_version.version.calculate_new_version from the merged PRs on
RvNewVersionFromPrs(base_version, env, trace) ==
    IF env.prs_fail THEN Outcome(Raised("GithubException"), Append(trace, "github"))
    ELSE RvNewVersionOfBump(base_version, rv_determine_bump_type(env.prs), env,
                            Append(trace, "github"))

\* release_version.version.calculate_new_version: without a tag the
\* manifest's version is returned as it is; with one, the base version goes
\* unexamined until calculate_version
rv_calculate_new_version(env) ==
    IF env.latest_tag = <<>>
    THEN VersionAndTag(rv_read_cargo_version(env.manifest),
                       <<"git describe", "Cargo.toml">>)
    ELSE IF env.timestamp_fail
         THEN Outcome(Raised("ValueError"), <<"git describe", "git log">>)
    ELSE RvNewVersionFromPrs(LStripV(env.latest_tag), env, <<"git describe", "git log">>)

(***************************************************************************)
(* A run of a version script on a repository: what main meets when it      *)
(* calls the functions above (version and release-version __main__.py)     *)
(***************************************************************************)
\* the calculation the script and its mode ask for; file is the manifest
\* PR mode runs for pull request 7 at commit abc1234
COMMIT_SHA == <<"a", "b", "c", "1", "2", "3", "4">>
Calculated(script, mode, repo, file) ==
    IF script = "release-version"
    THEN rv_calculate_new_version([repo EXCEPT !.manifest = file])
    ELSE IF mode = "pr"
    THEN calculate_pr_version(7, COMMIT_SHA, [repo EXCEPT !.manifest = file])
    ELSE calculate_new_version([repo EXCEPT !.manifest = file])

\* the version main goes on with: calculate_new_version returns
\* (version, tag_name), calculate_pr_version the version
VersionOf(script, mode, calc) ==
    IF calc.result.status = "raised" THEN <<>>
    ELSE IF script = "version" /\ mode = "pr" THEN calc.result.value
    ELSE calc.result.value[1]

\* update_cargo_version(cargo_toml_path, version) of the script's package
ManifestUpdate(script, file, version, io) ==
    IF script = "release-version" THEN rv_update_cargo_version(file, version, io)
    ELSE update_cargo_version(file, version, io)

\* how the run goes, from what the calculation and the update did and
\* whether "cargo update" and the writing of the output succeed
WorldOf(calc, updated, lock_ok, output_ok) ==
    IF calc.result.status = "raised" THEN "calc_fails"
    ELSE IF updated.status = "raised"
         THEN (IF updated.wrote THEN "update_fails_after_write" ELSE "update_fails")
    ELSE IF ~updated.value
         THEN (IF output_ok THEN "unchanged" ELSE "unchanged_output_fails")
    ELSE IF ~lock_ok THEN "lock_fails"
    ELSE IF ~output_ok THEN "output_fails"
    ELSE "ok"

\* the manifest after the run
FileAfter(calc, updated, file) ==
    IF calc.result.status = "raised" THEN file ELSE updated.file

\* main of the script in an environment that lacks nothing
ScriptMain(script, mode, world) ==
    IF script = "release-version"
    THEN release_version_main([token |-> "ghp", repository |-> "npetzall/moved_maker",
                               arg_pr |-> 0, pr_number |-> <<"7">>, mode |-> mode,
                               commit_sha |-> "abc1234"], world)
    ELSE version_main([token |-> "ghp", repository |-> "npetzall/moved_maker",
                       arg_pr |-> 0, pr_number |-> <<"7">>, mode |-> mode,
                       commit_sha |-> "abc1234"], world)

\* one run: its record, from the calculation and the update it made
RunRecord(script, mode, file, calc, updated, world) ==
    [before |-> file,
     version |-> VersionOf(script, mode, calc),
     world |-> world,
     after |-> FileAfter(calc, updated, file),
     result |-> ScriptMain(script, mode, world)]

\* the run from the update of the manifest on
RunUpdated(script, mode, file, calc, updated, lock_ok, output_ok) ==
    RunRecord(script, mode, file, calc, updated,
              WorldOf(calc, updated, lock_ok, output_ok))

\* the run from the calculation on
RunCalculated(script, mode, file, calc, io, lock_ok, output_ok) ==
    RunUpdated(script, mode, file, calc,
               ManifestUpdate(script, file, VersionOf(script, mode, calc), io),
               lock_ok, output_ok)

\* one run of the script on the repository
RunOnce(script, mode, repo, file, io, lock_ok, output_ok) ==
    RunCalculated(script, mode, file, Calculated(script, mode, repo, file),
                  io, lock_ok, output_ok)

(***************************************************************************)
(* test_summary.formatter: get_status_emoji                                *)
(***************************************************************************)
\* get_status_emoji(passed, failed, skipped); the marks are named "failure"
\* (the cross), "warning" (the warning sign) and "success" (the check mark)
get_status_emoji(passed, failed, skipped) ==
    IF failed > 0 THEN "failure"
    ELSE IF skipped > 0 /\ passed > 0 THEN "warning"
    ELSE "success"

(***************************************************************************)
(* release_notes.git: get_tags_sorted and get_previous_tag                 *)
(***************************************************************************)
\* a release tuple without its trailing zeros, as Version compares it
RECURSIVE StripZeros(_)
StripZeros(release) ==
    IF release # <<>> /\ release[Len(release)] = 0
    THEN StripZeros(SubSeq(release, 1, Len(release) - 1))
    ELSE release

\* the comparison of two tuples of numbers: -1, 0 or 1
RECURSIVE CmpTuple(_, _)
CmpTuple(a, b) ==
    IF a = <<>> /\ b = <<>> THEN 0
    ELSE IF a = <<>> THEN -1
    ELSE IF b = <<>> THEN 1
    ELSE IF a[1] < b[1] THEN -1
    ELSE IF a[1] > b[1] THEN 1
    ELSE CmpTuple(Tail(a), Tail(b))

\* version.parse(t.name.lstrip("v")) of a tag name
TagVersion(name) == Version(LStripV(name))

\* the comparison of the sort keys of two tags whose names are final releases
CmpTags(a, b) ==
    CmpTuple(StripZeros(TagVersion(a).release), StripZeros(TagVersion(b).release))

\* the place of a tag in a list sorted the other way round, lowest first
RECURSIVE InsertSorted_Ascending(_, _)
InsertSorted_Ascending(sorted, tag) ==
    IF sorted = <<>> THEN <<tag>>
    ELSE IF CmpTags(sorted[1], tag) <= 0
         THEN <<sorted[1]>> \o InsertSorted_Ascending(Tail(sorted), tag)
    ELSE <<tag>> \o sorted

\* the place of a tag in a list sorted with reverse=True: behind every tag
\* that is not lower, so that equal versions keep the order they came in
RECURSIVE InsertSorted(_, _)
InsertSorted(sorted, tag) ==
    IF sorted = <<>> THEN <<tag>>
    ELSE IF CmpTags(sorted[1], tag) >= 0
         THEN <<sorted[1]>> \o InsertSorted(Tail(sorted), tag)
    ELSE <<tag>> \o sorted

\* tags.sort(key=..., reverse=True)
RECURSIVE SortTags(_, _)
SortTags(tags, sorted) ==
    IF tags = <<>> THEN sorted
    ELSE SortTags(Tail(tags), InsertSorted(sorted, tags[1]))

\* the tags whose names are versions, in the order they came in
RECURSIVE ValidTags(_)
ValidTags(tags) ==
    IF tags = <<>> THEN <<>>
    ELSE (IF TagVersion(tags[1]).valid THEN <<tags[1]>> ELSE <<>>) \o ValidTags(Tail(tags))

\* get_tags_sorted(repo): the sort raises InvalidVersion on the first name
\* that is no version and leaves the list as it was; the valid tags are
\* then sorted on their own
get_tags_sorted(tags) ==
    IF \A i \in 1..Len(tags) : TagVersion(tags[i]).valid
    THEN SortTags(tags, <<>>)
    ELSE SortTags(ValidTags(tags), <<>>)

\* the index of the first tag of the list named current_tag_name, 0 for None
RECURSIVE CurrentIndex(_, _, _)
CurrentIndex(tags, current_tag_name, i) ==
    IF i > Len(tags) THEN 0
    ELSE IF tags[i] = current_tag_name THEN i
    ELSE CurrentIndex(tags, current_tag_name, i + 1)

\* the tag behind the current one; <<>> stands for None
TagAfter(tags, current_index) ==
    IF tags = <<>> THEN <<>>
    ELSE IF current_index = 0 THEN <<>>
    ELSE IF current_index + 1 <= Len(tags) THEN tags[current_index + 1]
    ELSE <<>>

\* get_previous_tag(repo, current_tag_name); tags is what repo.get_tags() lists
get_previous_tag(tags, current_tag_name) ==
    TagAfter(get_tags_sorted(tags),
             CurrentIndex(get_tags_sorted(tags), current_tag_name, 1))

(***************************************************************************)
(* From the labels pr-labels puts on a pull request to the bump that the   *)
(* version package reads from them                                         *)
(***************************************************************************)
\* the labels on the pull request after main of pr-labels decided and
\* called apply_labels, every call to GitHub succeeding; decision is what
\* pl_main returns
LabelledBy(decision, on) ==
    IF decision.exit_code # 0 THEN Run(on, <<>>, "returned")
    ELSE Finished(main_apply_labels(on, [l \in LabelsToRemove |-> "none"],
                                    decision.labels.version_label,
                                    decision.labels.alt_label, "none", FALSE))

(***************************************************************************)
(* release_notes.formatter: group_by_type and generate_markdown            *)
(***************************************************************************)
\* section_order of generate_markdown
SectionOrder ==
    <<"feat", "fix", "docs", "refactor", "perf", "test", "chore", "ci", "build",
      "style", "revert", "other">>

\* a commit as the parser sees it: what categorize_commit and
\* is_breaking_change answer for its message
NoteCommit(sha, category, breaking) ==
    [sha |-> sha, category |-> category, breaking |-> breaking]

\* the commits of the list that group_by_type puts under the key; a key
\* with no commits is not in the dictionary
RECURSIVE group_by_type(_, _)
group_by_type(commits, key) ==
    IF commits = <<>> THEN <<>>
    ELSE (IF (key = "breaking" /\ commits[1].breaking)
             \/ (key # "breaking" /\ ~commits[1].breaking /\ commits[1].category = key)
          THEN <<commits[1]>> ELSE <<>>)
         \o group_by_type(Tail(commits), key)

\* the lines of the document
HeaderLine(title) == [kind |-> "header", title |-> title, sha |-> <<>>, count |-> 0]
EntryLine(kind, commit) == [kind |-> kind, title |-> "", sha |-> commit.sha, count |-> 0]
StatLine(title, count) == [kind |-> "stat", title |-> title, sha |-> <<>>, count |-> count]
TextLine(title) == [kind |-> "text", title |-> title, sha |-> <<>>, count |-> 0]

\* one line for each commit of the list
RECURSIVE EntryLines(_, _)
EntryLines(kind, commits) ==
    IF commits = <<>> THEN <<>>
    ELSE <<EntryLine(kind, commits[1])>> \o EntryLines(kind, Tail(commits))

\* format_breaking_changes: the header and one bold entry for each commit
format_breaking_changes(commits) ==
    IF commits = <<>> THEN <<>>
    ELSE <<HeaderLine("breaking")>> \o EntryLines("breaking_entry", commits)

\* sections that leave out the commits of the type "fix"
RECURSIVE TypeSections_SkipsFixes(_, _, _)
TypeSections_SkipsFixes(commits, order, i) ==
    IF i > Len(order) THEN <<>>
    ELSE (IF group_by_type(commits, order[i]) = <<>> \/ order[i] = "fix" THEN <<>>
          ELSE <<HeaderLine(order[i])>> \o EntryLines("entry", group_by_type(commits, order[i])))
         \o TypeSections_SkipsFixes(commits, order, i + 1)

\* the loop over section_order: a header and the entries of every type
\* that is in the dictionary
RECURSIVE TypeSections(_, _, _)
TypeSections(commits, order, i) ==
    IF i > Len(order) THEN <<>>
    ELSE (IF group_by_type(commits, order[i]) = <<>> THEN <<>>
          ELSE <<HeaderLine(order[i])>> \o EntryLines("entry", group_by_type(commits, order[i])))
         \o TypeSections(commits, order, i + 1)

\* the Application section: the breaking changes first, then the types
ApplicationSection(application_commits) ==
    IF application_commits = <<>>
    THEN <<HeaderLine("Application"), TextLine("No application changes.")>>
    ELSE <<HeaderLine("Application")>>
         \o format_breaking_changes(group_by_type(application_commits, "breaking"))
         \o TypeSections(application_commits, SectionOrder, 1)

\* the Other section: the types of section_order only
OtherSection(other_commits) ==
    IF other_commits = <<>> THEN <<>>
    ELSE <<HeaderLine("Other")>> \o TypeSections(other_commits, SectionOrder, 1)

\* the Statistics section
Statistics(commits, application_commits, other_commits) ==
    <<HeaderLine("Statistics"),
      StatLine("Total Commits", Len(commits)),
      StatLine("Application Commits", Len(application_commits)),
      StatLine("Other Commits", Len(other_commits))>>

\* generate_markdown(commits, ..., application_commits, other_commits):
\* the lines of the document that are about commits
generate_markdown(commits, application_commits, other_commits) ==
    <<HeaderLine("Release"), HeaderLine("What's New")>>
    \o ApplicationSection(application_commits)
    \o OtherSection(other_commits)
    \o <<HeaderLine("Installation")>>
    \o Statistics(commits, application_commits, other_commits)
(***************************************************************************)
(* State                                                                   *)
(***************************************************************************)
VARIABLES
    \* calculate_version: its arguments and what each package's function did
    base_version, bump_type, commit_count, cv_result, rv_result,
    \* calculate_pr_version: its arguments, the collaborators' answers, its outcome
    pr_number, commit_sha, env, prv_outcome,
    \* the commit parsers: the message and what each parser returned
    message, parsed_by, rn_parsed, pl_parsed,
    \* pr-labels: the PR's commit messages, title and body, and the decisions
    commits, pr_title, pr_body, dvb_labels, pc_labels, main_result,
    \* the manifest: the package whose functions are called, the file, the calls made
    cargo_pkg, cargo_file, cargo_calls,
    \* labelling a pull request: its labels, the faults of the service, the decided labels, the run
    al_on, al_fault, al_labels, al_add_fault, al_by, al_dry_run, al_run,
    \* a script run: its environment, the script, the answers of the world, its end
    sc_env, sc_script, sc_world, sc_result,
    \* determine_bump_type: the merged PRs' label sets and what each package's function returned
    bt_prs, bt_result, bt_rv_result,
    \* get_merged_prs_since: the listing of closed PRs, the timestamp, the result
    gh_listing, gh_since, gh_result,
    \* write_checksum_atomic: where the call is, the output directory, the output path before and now, the temporary file, the step that failed
    ck_pc, ck_parent, ck_before, ck_out, ck_temp, ck_failed,
    \* calculate_new_version: the collaborators' answers and each package's outcome
    nv_env, nv_outcome, nv_rv_outcome,
    \* get_commit_count: the history, the tagged commit, whether a tag is given, each package's result
    cc_history, cc_tag_at, cc_since_tag, cc_result, cc_rv_result,
    \* runs of a version script: the script and its mode, the repository, the manifest, the runs made
    rn_script, rn_repo, rn_file, rn_runs,
    \* a run of pr-labels: the repository's labels, the PR's labels, the faults, the decided labels, --dry-run, the end
    dr_repo_labels, dr_on, dr_fault, dr_decided, dr_dry_run, dr_result,
    \* get_previous_tag: the repository's tags, the current tag's name, the result
    tg_tags, tg_current, tg_result,
    \* get_status_emoji: the totals of a test run and the mark chosen
    ts_passed, ts_failed, ts_skipped, ts_emoji,
    \* labelling a pull request and bumping from its labels: commits, title, body, labels on the PR, the decision, the bump
    ag_commits, ag_title, ag_body, ag_on, ag_decision, ag_bump,
    \* generate_markdown: the application commits, the other commits, the lines written
    rn_application, rn_other, rn_lines

calcVars == <<base_version, bump_type, commit_count, cv_result, rv_result>>
prvVars == <<pr_number, commit_sha, env, prv_outcome>>
parseVars == <<message, parsed_by, rn_parsed, pl_parsed>>
labelVars == <<commits, pr_title, pr_body, dvb_labels, pc_labels, main_result>>
coreVars == <<calcVars, prvVars, parseVars, labelVars>>
cargoVars == <<cargo_pkg, cargo_file, cargo_calls>>
applyVars == <<al_on, al_fault, al_labels, al_add_fault, al_by, al_dry_run, al_run>>
scriptVars == <<sc_env, sc_script, sc_world, sc_result>>
bumpVars == <<bt_prs, bt_result, bt_rv_result>>
githubVars == <<gh_listing, gh_since, gh_result>>
checksumVars == <<ck_pc, ck_parent, ck_before, ck_out, ck_temp, ck_failed>>
newVersionVars == <<nv_env, nv_outcome, nv_rv_outcome>>
countVars == <<cc_history, cc_tag_at, cc_since_tag, cc_result, cc_rv_result>>
runsVars == <<rn_script, rn_repo, rn_file, rn_runs>>
dryRunVars == <<dr_repo_labels, dr_on, dr_fault, dr_decided, dr_dry_run, dr_result>>
tagsVars == <<tg_tags, tg_current, tg_result>>
summaryVars == <<ts_passed, ts_failed, ts_skipped, ts_emoji>>
agreeVars == <<ag_commits, ag_title, ag_body, ag_on, ag_decision, ag_bump>>
notesVars == <<rn_application, rn_other, rn_lines>>
\* the state of the scripts that work on files and on GitHub
ioVars == <<cargoVars, applyVars, scriptVars, bumpVars, githubVars, checksumVars, newVersionVars, countVars, runsVars, dryRunVars, tagsVars, summaryVars, agreeVars, notesVars>>
vars == <<coreVars, ioVars>>
notCargoVars == <<coreVars, applyVars, scriptVars, bumpVars, githubVars, checksumVars, newVersionVars, countVars, runsVars, dryRunVars, tagsVars, summaryVars, agreeVars, notesVars>>
notApplyVars == <<coreVars, cargoVars, scriptVars, bumpVars, githubVars, checksumVars, newVersionVars, countVars, runsVars, dryRunVars, tagsVars, summaryVars, agreeVars, notesVars>>
notScriptVars == <<coreVars, cargoVars, applyVars, bumpVars, githubVars, checksumVars, newVersionVars, countVars, runsVars, dryRunVars, tagsVars, summaryVars, agreeVars, notesVars>>
notBumpVars == <<coreVars, cargoVars, applyVars, scriptVars, githubVars, checksumVars, newVersionVars, countVars, runsVars, dryRunVars, tagsVars, summaryVars, agreeVars, notesVars>>
notGithubVars == <<coreVars, cargoVars, applyVars, scriptVars, bumpVars, checksumVars, newVersionVars, countVars, runsVars, dryRunVars, tagsVars, summaryVars, agreeVars, notesVars>>
notChecksumVars == <<coreVars, cargoVars, applyVars, scriptVars, bumpVars, githubVars, newVersionVars, countVars, runsVars, dryRunVars, tagsVars, summaryVars, agreeVars, notesVars>>
notNewVersionVars == <<coreVars, cargoVars, applyVars, scriptVars, bumpVars, githubVars, checksumVars, countVars, runsVars, dryRunVars, tagsVars, summaryVars, agreeVars, notesVars>>
notCountVars == <<coreVars, cargoVars, applyVars, scriptVars, bumpVars, githubVars, checksumVars, newVersionVars, runsVars, dryRunVars, tagsVars, summaryVars, agreeVars, notesVars>>
notRunsVars == <<coreVars, cargoVars, applyVars, scriptVars, bumpVars, githubVars, checksumVars, newVersionVars, countVars, dryRunVars, tagsVars, summaryVars, agreeVars, notesVars>>
notDryRunVars == <<coreVars, cargoVars, applyVars, scriptVars, bumpVars, githubVars, checksumVars, newVersionVars, countVars, runsVars, tagsVars, summaryVars, agreeVars, notesVars>>
notTagsVars == <<coreVars, cargoVars, applyVars, scriptVars, bumpVars, githubVars, checksumVars, newVersionVars, countVars, runsVars, dryRunVars, summaryVars, agreeVars, notesVars>>
notSummaryVars == <<coreVars, cargoVars, applyVars, scriptVars, bumpVars, githubVars, checksumVars, newVersionVars, countVars, runsVars, dryRunVars, tagsVars, agreeVars, notesVars>>
notAgreeVars == <<coreVars, cargoVars, applyVars, scriptVars, bumpVars, githubVars, checksumVars, newVersionVars, countVars, runsVars, dryRunVars, tagsVars, summaryVars, notesVars>>
notNotesVars == <<coreVars, cargoVars, applyVars, scriptVars, bumpVars, githubVars, checksumVars, newVersionVars, countVars, runsVars, dryRunVars, tagsVars, summaryVars, agreeVars>>

(***************************************************************************)
(* calculate_version                                                       *)
(***************************************************************************)
\* version components: the small ones, and 9 whose successor has two digits
Components == (0..MaxComponent) \cup {9}
CoreVersions == {Dotted(x, y, z) : x \in Components, y \in Components, z \in Components}
OddVersions ==
    { <<>>,
      <<"1", ".", "0">>,
      <<"v", "1", ".", "2", ".", "3">>,
      <<"V", "1", ".", "2", ".", "3">>,
      <<"1", ".", "2", ".", "3", ".", "4">>,
      <<"0", "1", ".", "0", "2", ".", "0", "3">>,
      <<"1", ".", "2", ".", "3", "r", "c", "1">>,
      <<"1", ".", "2", ".", "3", "+", "a", "b">>,
      <<"1", ".", "2", ".", "3", "-", "p", "r", "1", "+", "a", "b">>,
      <<"1", ".", "2", ".", "x">>,
      <<"i", "n", "v", "a", "l", "i", "d">> }
BaseVersions == CoreVersions \cup OddVersions
BumpTypes == {"MAJOR", "MINOR", "PATCH"}
CommitCounts == (0 - MaxCommitCount)..MaxCommitCount

IdleCalc ==
    /\ base_version = <<>>
    /\ bump_type = "PATCH"
    /\ commit_count = 0
    /\ cv_result = Pending
    /\ rv_result = Pending

InitCalc ==
    /\ base_version \in BaseVersions
    /\ bump_type \in BumpTypes
    /\ commit_count \in CommitCounts
    /\ cv_result = Pending
    /\ rv_result = Pending

\* a call of version.version.calculate_version
CalculateVersion ==
    /\ cv_result = Pending
    /\ cv_result' = calculate_version(base_version, bump_type, commit_count)
    /\ UNCHANGED <<base_version, bump_type, commit_count, rv_result>>
    /\ UNCHANGED <<prvVars, parseVars, labelVars, ioVars>>

\* a call of release_version.version.calculate_version
RvCalculateVersion ==
    /\ rv_result = Pending
    /\ rv_result' = rv_calculate_version(base_version, bump_type, commit_count)
    /\ UNCHANGED <<base_version, bump_type, commit_count, cv_result>>
    /\ UNCHANGED <<prvVars, parseVars, labelVars, ioVars>>

(***************************************************************************)
(* calculate_pr_version                                                    *)
(***************************************************************************)
Manifest(version) ==
    [exists |-> TRUE, toml_ok |-> TRUE, has_package |-> TRUE, has_version |-> TRUE,
     version |-> version]
NoManifest ==
    [exists |-> FALSE, toml_ok |-> FALSE, has_package |-> FALSE, has_version |-> FALSE,
     version |-> <<>>]
Manifests ==
    { NoManifest,
      [Manifest(<<>>) EXCEPT !.has_package = FALSE, !.has_version = FALSE],
      Manifest(<<"0", ".", "1", ".", "0">>),
      Manifest(<<"v", "0", ".", "1", ".", "0">>),
      Manifest(<<"1", ".", "9">>),
      Manifest(<<"1", ".", "0", ".", "2", "-", "p", "r", "1", "+", "a", "b", "c">>) }
\* what "git describe" answers: <<>> stands for no tag
LatestTags ==
    { <<>>,
      <<"v", "1", ".", "0", ".", "2">>,
      <<"v", "2", ".", "9">>,
      <<"v", "x">> }
\* the label sets of the merged PRs
PrLists ==
    { <<>>,
      <<{"version: major", "breaking"}>>,
      <<{"feature"}, {"version: patch"}>>,
      <<{"bug"}>> }
PrNumbers == (0..MaxPrNumber) \cup {123}
CommitShas ==
    { <<>>,
      <<"a", "b", "c", "1", "2", "3", "4", "5", "6", "7">>,
      <<"p", "r", "1", "2">>,
      <<"a", "b", "-", "c">>,
      <<"a", "+", "1">> }
Envs ==
    [latest_tag : LatestTags, manifest : Manifests, timestamp_fail : BOOLEAN,
     prs_fail : BOOLEAN, prs : PrLists, count_fail : BOOLEAN,
     commit_count : 0..MaxCommitCount]
IdleEnv ==
    [latest_tag |-> <<>>, manifest |-> NoManifest, timestamp_fail |-> FALSE,
     prs_fail |-> FALSE, prs |-> <<>>, count_fail |-> FALSE, commit_count |-> 0]
PendingOutcome == Outcome(Pending, <<>>)

IdlePrv ==
    /\ pr_number = 0
    /\ commit_sha = <<>>
    /\ env = IdleEnv
    /\ prv_outcome = PendingOutcome

InitPrv ==
    /\ pr_number \in PrNumbers
    /\ commit_sha \in CommitShas
    /\ env \in Envs
    \* a failing call answers nothing
    /\ env.prs_fail => env.prs = <<>>
    /\ env.count_fail => env.commit_count = 0
    /\ prv_outcome = PendingOutcome

\* a call of version.version.calculate_pr_version
CalculatePrVersion ==
    /\ prv_outcome = PendingOutcome
    /\ prv_outcome' = calculate_pr_version(pr_number, commit_sha, env)
    /\ UNCHANGED <<pr_number, commit_sha, env>>
    /\ UNCHANGED <<calcVars, parseVars, labelVars, ioVars>>

(***************************************************************************)
(* The commit parsers                                                      *)
(***************************************************************************)
\* the pieces a header is put together from: type, scope, "!", ":", subject
TypePieces ==
    { <<>>, FEAT, <<"F", "e", "a", "t">>, <<"f", "i", "x">>,
      <<"f", "i", "x", " ", "i", "t">> }
ScopePieces ==
    { <<>>, <<"(", "a", "p", "i", ")">>, <<"(", ")">>, <<"(", "a">>,
      <<"(", "a", "!", ":", "b", ")">> }
BangPieces == { <<>>, <<"!">> }
ColonPieces == { <<>>, <<":">> }
SubjectPieces == { <<>>, <<" ">>, <<" ", "x">>, <<"x", "!", ":", " ", "y">> }
Headers ==
    { t \o s \o b \o c \o j :
        t \in TypePieces, s \in ScopePieces, b \in BangPieces,
        c \in ColonPieces, j \in SubjectPieces }
\* what follows the header: nothing, or a newline and a body
BodyPieces ==
    { <<>>,
      <<NL>>,
      <<NL, "t", "e", "x", "t">>,
      <<NL, NL>> \o BREAKING_CHANGE \o <<" ", "x">>,
      <<NL>> \o BREAKING_HYPHEN_CHANGE \o <<" ", "x">>,
      <<NL>> \o Lower(BREAKING_CHANGE) \o <<" ", "x">> }
Messages == { h \o b : h \in Headers, b \in BodyPieces }

NotParsed ==
    [type |-> <<>>, has_scope |-> FALSE, scope |-> <<>>, subject |-> <<>>,
     has_body |-> FALSE, body |-> <<>>, is_breaking |-> FALSE]
NotParsedPl == [type |-> <<>>, is_breaking |-> FALSE]

IdleParse ==
    /\ message = <<>>
    /\ parsed_by = {}
    /\ rn_parsed = NotParsed
    /\ pl_parsed = NotParsedPl

InitParse ==
    /\ message \in Messages
    /\ parsed_by = {}
    /\ rn_parsed = NotParsed
    /\ pl_parsed = NotParsedPl

\* a call of release_notes.parser.parse_commit_message
RnParseCommitMessage ==
    /\ "release-notes" \notin parsed_by
    /\ rn_parsed' = rn_parse_commit_message(message)
    /\ parsed_by' = parsed_by \cup {"release-notes"}
    /\ UNCHANGED <<message, pl_parsed>>
    /\ UNCHANGED <<calcVars, prvVars, labelVars, ioVars>>

\* a call of pr_labels.__main__.parse_commit_message
PlParseCommitMessage ==
    /\ "pr-labels" \notin parsed_by
    /\ pl_parsed' = pl_parse_commit_message(message)
    /\ parsed_by' = parsed_by \cup {"pr-labels"}
    /\ UNCHANGED <<message, rn_parsed>>
    /\ UNCHANGED <<calcVars, prvVars, labelVars, ioVars>>

(***************************************************************************)
(* pr-labels: the reducers and main                                        *)
(***************************************************************************)
CommitPool ==
    { <<>>,
      <<"f", "i", "x", ":", " ", "a">>,
      FEAT \o <<":", " ", "b">>,
      FEAT \o <<"(", "a", "p", "i", ")", ":", " ", "b">>,
      FEATURE \o <<":", " ", "b">>,
      <<"F", "e", "a", "t", ":", " ", "b">>,
      FEAT \o <<"!", ":", " ", "c">>,
      <<"f", "i", "x", ":", " ", "a", NL, NL>> \o BREAKING_CHANGE \o <<" ", "x">>,
      <<"f", "i", "x", ":", " ", "a", NL, NL>> \o BREAKING_HYPHEN_CHANGE \o <<" ", "x">>,
      <<"d", "o", "c", "s", NL>> \o BREAKING_CHANGE \o <<" ", "x">>,
      <<"f", "i", "x", ":", " ", "o", "h", "!", ":", " ", "x">> }
RECURSIVE SeqsUpTo(_, _)
SeqsUpTo(S, n) ==
    IF n = 0 THEN {<<>>}
    ELSE LET shorter == SeqsUpTo(S, n - 1)
         IN shorter \cup {Append(q, x) : q \in shorter, x \in S}
CommitLists == SeqsUpTo(CommitPool, MaxCommits)
PrTitles ==
    { <<>>,
      <<"f", "i", "x", ":", " ", "a">>,
      FEAT \o <<":", " ", "b">>,
      FEAT \o <<"(", "a", "p", "i", ")", "!", ":", " ", "c">>,
      <<"f", "i", "x", ":", " ">> \o BREAKING_CHANGE \o <<" ", "x">>,
      BREAKING_HYPHEN_CHANGE \o <<" ", "x">> }
PrBodies ==
    { <<>>,
      <<"t", "e", "x", "t">>,
      <<"t", NL>> \o BREAKING_CHANGE \o <<" ", "x">>,
      BREAKING_HYPHEN_CHANGE \o <<" ", "x">> }

PendingLabels == LabelResult("pending", "pending")
PendingMain ==
    [exit_code |-> -1, commit_labels |-> PendingLabels, pr_labels |-> PendingLabels,
     labels |-> PendingLabels]

IdleLabels ==
    /\ commits = <<>>
    /\ pr_title = <<>>
    /\ pr_body = <<>>
    /\ dvb_labels = PendingLabels
    /\ pc_labels = PendingLabels
    /\ main_result = PendingMain

\* the reducers read the commits only
InitReduce ==
    /\ commits \in CommitLists
    /\ pr_title = <<>>
    /\ pr_body = <<>>
    /\ dvb_labels = PendingLabels
    /\ pc_labels = PendingLabels
    /\ main_result = PendingMain

InitMain ==
    /\ commits \in CommitLists
    /\ pr_title \in PrTitles
    /\ pr_body \in PrBodies
    /\ dvb_labels = PendingLabels
    /\ pc_labels = PendingLabels
    /\ main_result = PendingMain

\* a call of pr_labels.__main__.determine_version_bump
DetermineVersionBump ==
    /\ dvb_labels = PendingLabels
    /\ dvb_labels' = determine_version_bump(commits)
    /\ UNCHANGED <<commits, pr_title, pr_body, pc_labels, main_result>>
    /\ UNCHANGED <<calcVars, prvVars, parseVars, ioVars>>

\* a call of pr_labels.parser.parse_commits
ParseCommits ==
    /\ pc_labels = PendingLabels
    /\ pc_labels' = parse_commits(commits)
    /\ UNCHANGED <<commits, pr_title, pr_body, dvb_labels, main_result>>
    /\ UNCHANGED <<calcVars, prvVars, parseVars, ioVars>>

\* pr_labels.__main__.main from the fetched commits to the labels it decides
\* (lines 304-326): exit code 1 without a decision when the PR has no commits
MainDecision(commit_labels, pr_labels) ==
    [exit_code |-> 0,
     commit_labels |-> commit_labels,
     pr_labels |-> pr_labels,
     labels |-> CombineLabels(commit_labels, pr_labels)]
pl_main(pr_commits, title, body) ==
    IF pr_commits = <<>>
    THEN [PendingMain EXCEPT !.exit_code = 1]
    ELSE MainDecision(determine_version_bump(pr_commits),
                      check_pr_title_body(title, body))

\* a run of pr_labels.__main__.main
PrLabelsMain ==
    /\ main_result = PendingMain
    /\ main_result' = pl_main(commits, pr_title, pr_body)
    /\ UNCHANGED <<commits, pr_title, pr_body, dvb_labels, pc_labels>>
    /\ UNCHANGED <<calcVars, prvVars, parseVars, ioVars>>

(***************************************************************************)
(* The manifest reader and writer                                          *)
(***************************************************************************)
CargoToml(version, others) ==
    [exists |-> TRUE, toml_ok |-> TRUE, has_package |-> TRUE, has_version |-> TRUE,
     version |-> version, others |-> others]
CargoFiles ==
    { NoCargoToml,
      [CargoToml(<<>>, "broken") EXCEPT !.toml_ok = FALSE, !.has_package = FALSE,
                                        !.has_version = FALSE],
      [CargoToml(<<>>, "[dependencies]") EXCEPT !.has_package = FALSE,
                                                !.has_version = FALSE],
      [CargoToml(<<>>, "name") EXCEPT !.has_version = FALSE],
      CargoToml(<<>>, "name"),
      CargoToml(<<"0", ".", "1", ".", "0">>, "name"),
      CargoToml(<<"0", ".", "1", ".", "0">>, "name, [dependencies]"),
      CargoToml(<<"v", "0", ".", "1", ".", "0">>, "name"),
      CargoToml(<<"V", "2", ".", "0", ".", "0">>, "name"),
      CargoToml(<<"1", ".", "0", ".", "2", "-", "p", "r", "1", "+", "a", "b", "c">>, "name") }
\* the version argument of update_cargo_version
NewVersions ==
    { <<>>,
      <<"0", ".", "1", ".", "0">>,
      <<"0", ".", "2", ".", "0">>,
      <<"v", "1", ".", "0", ".", "0">>,
      <<"1", ".", "0", ".", "2", "-", "p", "r", "1", "+", "a", "b", "c">>,
      <<"n", "o", "n", "e">> }
IoOutcomes == {"ok", "open_fails", "write_fails"}
CargoPackages == {"version", "release-version"}

\* no manifest call is under way
IdleCargo ==
    /\ cargo_pkg = "version"
    /\ cargo_file = NoCargoToml
    /\ cargo_calls = <<>>

InitCargo ==
    /\ cargo_pkg \in CargoPackages
    /\ cargo_file \in CargoFiles
    /\ cargo_calls = <<>>

\* the read_cargo_version of the package in use
CallRead(pkg, file) ==
    IF pkg = "version" THEN read_cargo_version(file) ELSE rv_read_cargo_version(file)
\* the update_cargo_version of the package in use
CallUpdate(pkg, file, version, io) ==
    IF pkg = "version" THEN update_cargo_version(file, version, io)
    ELSE rv_update_cargo_version(file, version, io)

\* a call of read_cargo_version
ReadCargoVersion ==
    /\ Len(cargo_calls) < MaxCargoCalls
    /\ cargo_calls' = Append(cargo_calls,
          [op |-> "read", version |-> <<>>, io |-> "ok", before |-> cargo_file,
           result |-> CallRead(cargo_pkg, cargo_file)])
    /\ UNCHANGED <<cargo_pkg, cargo_file>>
    /\ UNCHANGED notCargoVars

\* a call of update_cargo_version
UpdateCargoVersion ==
    /\ Len(cargo_calls) < MaxCargoCalls
    /\ \E version \in NewVersions, io \in IoOutcomes :
          /\ cargo_calls' = Append(cargo_calls,
                [op |-> "update", version |-> version, io |-> io, before |-> cargo_file,
                 result |-> CallUpdate(cargo_pkg, cargo_file, version, io)])
          /\ cargo_file' = CallUpdate(cargo_pkg, cargo_file, version, io).file
    /\ UNCHANGED cargo_pkg
    /\ UNCHANGED notCargoVars

(***************************************************************************)
(* Applying the labels to a pull request                                   *)
(***************************************************************************)
\* the labels a pull request carries before the run
PrLabelSets ==
    { {}, {"version: patch"}, {"version: minor", "feature"}, {"breaking", "bug"} }
\* what happens to the removal of each label: nothing special, the label is
\* gone by the time of the call, or the service fails
RemovalFaults == [LabelsToRemove -> {"none", "gone", "error"}]
\* the decided pair (version_label, alt_label)
DecidedLabels ==
    { <<"version: major", "breaking">>, <<"version: minor", "feature">>,
      <<"version: patch", "">> }
\* which of the calls that put labels on fails
AddFaults == {"none", "ensure", "add"}

NoRun == Run({}, <<>>, "idle")

\* no labelling run is under way
IdleApply ==
    /\ al_on = {}
    /\ al_fault = [l \in LabelsToRemove |-> "none"]
    /\ al_labels = <<"version: patch", "">>
    /\ al_add_fault = "none"
    /\ al_by = "none"
    /\ al_dry_run = FALSE
    /\ al_run = NoRun

InitApply ==
    /\ al_on \in PrLabelSets
    /\ al_fault \in RemovalFaults
    /\ al_labels \in DecidedLabels
    /\ al_add_fault \in AddFaults
    /\ al_by = "none"
    /\ al_dry_run = FALSE
    /\ al_run = NoRun

\* labeler.apply_labels(pr, repo)
LabelerApplyLabels ==
    /\ al_by = "none"
    /\ al_by' = "labeler"
    /\ al_run' = Finished(labeler_apply_labels(al_on, al_fault, al_labels[1],
                                               al_labels[2], al_add_fault))
    /\ UNCHANGED <<al_on, al_fault, al_labels, al_add_fault, al_dry_run>>
    /\ UNCHANGED notApplyVars

\* __main__.apply_labels(pr, version_label, alt_label, dry_run)
MainApplyLabels ==
    /\ al_by = "none"
    /\ al_by' = "main"
    /\ \E dry_run \in BOOLEAN :
          /\ al_dry_run' = dry_run
          /\ al_run' = Finished(main_apply_labels(al_on, al_fault, al_labels[1],
                                                  al_labels[2], al_add_fault, dry_run))
    /\ UNCHANGED <<al_on, al_fault, al_labels, al_add_fault>>
    /\ UNCHANGED notApplyVars

(***************************************************************************)
(* Running a script in an environment                                      *)
(***************************************************************************)
\* the environment variables and the argument a script is started with
ScriptEnvs ==
    [token : {"", "ghp"},
     repository : {"", "npetzall/moved_maker"},
     arg_pr : {0, 7},
     pr_number : {<<>>, <<"x">>, <<"7">>},
     mode : {"release", "pr"},
     commit_sha : {"", "abc1234"}]
\* how the rest of the world answers a run of pr-labels
PrLabelsWorlds == {"ok", "api_fails", "no_commits"}
\* how the rest of the world answers a run of a version script
VersionWorlds ==
    {"ok", "client_fails", "calc_fails", "update_fails", "update_fails_after_write",
     "unchanged", "unchanged_output_fails", "lock_fails", "output_fails"}

NotRun == Exit(-1, <<>>)

\* no script is running
IdleScript ==
    /\ sc_env = [token |-> "", repository |-> "", arg_pr |-> 0, pr_number |-> <<>>,
                 mode |-> "release", commit_sha |-> ""]
    /\ sc_script = "none"
    /\ sc_world = "none"
    /\ sc_result = NotRun

InitScript ==
    /\ sc_env \in ScriptEnvs
    /\ sc_script = "none"
    /\ sc_world = "none"
    /\ sc_result = NotRun

\* a run of pr-labels
RunPrLabels ==
    /\ sc_script = "none"
    /\ sc_script' = "pr-labels"
    /\ \E world \in PrLabelsWorlds :
          /\ sc_world' = world
          /\ sc_result' = pl_script_main(sc_env, world)
    /\ UNCHANGED sc_env
    /\ UNCHANGED notScriptVars

\* a run of the version script
RunVersion ==
    /\ sc_script = "none"
    /\ sc_script' = "version"
    /\ \E world \in VersionWorlds :
          /\ sc_world' = world
          /\ sc_result' = version_main(sc_env, world)
    /\ UNCHANGED sc_env
    /\ UNCHANGED notScriptVars

\* a run of the release-version script
RunReleaseVersion ==
    /\ sc_script = "none"
    /\ sc_script' = "release-version"
    /\ \E world \in VersionWorlds :
          /\ sc_world' = world
          /\ sc_result' = release_version_main(sc_env, world)
    /\ UNCHANGED sc_env
    /\ UNCHANGED notScriptVars

(***************************************************************************)
(* The bump type of a list of merged pull requests                         *)
(***************************************************************************)
\* the label sets a merged pull request may carry
PrLabelChoices ==
    { {}, {"bug"}, {"version: patch"}, {"feature"}, {"version: minor", "bug"},
      {"breaking"}, {"version: major", "feature"} }
\* the lists of at most MaxPrs pull requests
MergedPrLists == UNION { [1..n -> PrLabelChoices] : n \in 0..MaxPrs }

\* no bump type is being determined
IdleBump ==
    /\ bt_prs = <<>>
    /\ bt_result = "pending"
    /\ bt_rv_result = "pending"

InitBump ==
    /\ bt_prs \in MergedPrLists
    /\ bt_result = "pending"
    /\ bt_rv_result = "pending"

\* version.version.determine_bump_type(prs)
DetermineBumpType ==
    /\ bt_result = "pending"
    /\ bt_result' = determine_bump_type(bt_prs)
    /\ UNCHANGED <<bt_prs, bt_rv_result>>
    /\ UNCHANGED notBumpVars

\* release_version.version.determine_bump_type(prs)
RvDetermineBumpType ==
    /\ bt_rv_result = "pending"
    /\ bt_rv_result' = rv_determine_bump_type(bt_prs)
    /\ UNCHANGED <<bt_prs, bt_result>>
    /\ UNCHANGED notBumpVars

(***************************************************************************)
(* The merged pull requests since a tag                                    *)
(***************************************************************************)
\* GitHub lists the closed PRs by update time, newest first, and a PR is
\* never merged after its last update
IsListing(listing) ==
    /\ \A i \in 1..Len(listing) :
          /\ listing[i].number = i
          /\ listing[i].merged_at <= listing[i].updated_at
    /\ \A i \in 1..(Len(listing) - 1) : listing[i].updated_at >= listing[i + 1].updated_at

\* the timestamps <<updated_at, merged_at>> a closed PR can show
PrTimes == { <<u, m>> : u \in 1..MaxTime, m \in None..MaxTime }

ListingOf(times) == [i \in 1..Len(times) |-> ClosedPr(i, times[i][1], times[i][2])]

Listings ==
    { listing \in { ListingOf(times) :
                       times \in UNION { [1..n -> PrTimes] : n \in 0..MaxListed } } :
        IsListing(listing) }

\* no listing is being read
IdleGithub ==
    /\ gh_listing = <<>>
    /\ gh_since = 0
    /\ gh_result = Pending

InitGithub ==
    /\ gh_listing \in Listings
    /\ gh_since \in 0..(MaxTime + 1)
    /\ gh_result = Pending

\* a call of get_merged_prs_since
GetMergedPrsSince ==
    /\ gh_result = Pending
    /\ \E api_ok \in BOOLEAN :
          gh_result' = get_merged_prs_since(gh_listing, gh_since, api_ok)
    /\ UNCHANGED <<gh_listing, gh_since>>
    /\ UNCHANGED notGithubVars

(***************************************************************************)
(* Writing the checksum file, one file system call at a time               *)
(***************************************************************************)
\* what the output path holds before the call
OutputsBefore == {"absent", "old", "complete"}

\* no checksum is being written
IdleChecksum ==
    /\ ck_pc = "idle"
    /\ ck_parent = TRUE
    /\ ck_before = "absent"
    /\ ck_out = "absent"
    /\ ck_temp = "absent"
    /\ ck_failed = "none"

InitChecksum ==
    /\ ck_pc = "start"
    /\ ck_parent \in BOOLEAN
    /\ ck_before \in OutputsBefore
    /\ ck_out = ck_before
    /\ ck_temp = "absent"
    /\ ck_failed = "none"

\* the step at `pc` was taken and succeeded or raised
Taken(pc, ok) ==
    /\ ck_pc = pc
    /\ ck_pc' = StepAfter(pc, ok)
    /\ ck_failed' = IF ok THEN ck_failed ELSE pc
    /\ UNCHANGED ck_before
    /\ UNCHANGED notChecksumVars

\* output_path.parent.mkdir(parents=True, exist_ok=True)
Mkdir ==
    \E ok \in BOOLEAN :
       /\ Taken("start", ok)
       /\ ck_parent' = (ck_parent \/ ok)
       /\ UNCHANGED <<ck_out, ck_temp>>

\* tempfile.NamedTemporaryFile(mode="w", dir=temp_dir, delete=False, suffix=".tmp")
CreateTemp ==
    \E ok \in BOOLEAN :
       /\ Taken("mkdir_done", ok)
       /\ ck_temp' = IF ok THEN "empty" ELSE "absent"
       /\ UNCHANGED <<ck_parent, ck_out>>

\* temp_file.write(checksum_line)
WriteTemp ==
    \E ok \in BOOLEAN :
       /\ Taken("created", ok)
       /\ ck_temp' \in AfterWrite(ok)
       /\ UNCHANGED <<ck_parent, ck_out>>

\* temp_file.flush()
FlushTemp ==
    \E ok \in BOOLEAN :
       /\ Taken("written", ok)
       /\ ck_temp' \in AfterFlush(ck_temp, ok)
       /\ UNCHANGED <<ck_parent, ck_out>>

\* os.fsync(temp_file.fileno())
FsyncTemp ==
    \E ok \in BOOLEAN :
       /\ Taken("flushed", ok)
       /\ UNCHANGED <<ck_parent, ck_out, ck_temp>>

\* temp_file.close()
CloseTemp ==
    \E ok \in BOOLEAN :
       /\ Taken("synced", ok)
       /\ UNCHANGED <<ck_parent, ck_out, ck_temp>>

\* os.replace(temp_file.name, str(output_path))
Replace ==
    \E ok \in BOOLEAN :
       /\ Taken("closed", ok)
       /\ ck_out' = ReplacedOutput(ck_out, ck_temp, ok)
       /\ ck_temp' = ReplacedTemp(ck_temp, ok)
       /\ UNCHANGED ck_parent

\* the handler: os.unlink(temp_file.name), its OSError passed over, then IOError
CleanUp ==
    \E ok \in BOOLEAN :
       /\ ck_pc = "handler"
       /\ ck_pc' = StepAfter("handler", ok)
       /\ ck_temp' = Unlinked(ck_temp, ok)
       /\ UNCHANGED <<ck_parent, ck_before, ck_out, ck_failed>>
       /\ UNCHANGED notChecksumVars

(***************************************************************************)
(* Counting the commits since a tag                                        *)
(***************************************************************************)
\* the files a commit may touch
CommitChoices ==
    { {RepoPath("", "README.md")},
      {RepoPath("src", "main.rs")},
      {RepoPath("", "Cargo.lock"), RepoPath("", "README.md")},
      {RepoPath("docs", "Cargo.toml"), RepoPath(".github", "ci.yml")} }
Histories == UNION { [1..n -> CommitChoices] : n \in 0..MaxHistory }

\* no commit is being counted
IdleCount ==
    /\ cc_history = <<>>
    /\ cc_tag_at = 0
    /\ cc_since_tag = FALSE
    /\ cc_result = Pending
    /\ cc_rv_result = Pending

InitCount ==
    /\ cc_history \in Histories
    /\ cc_tag_at \in 0..Len(cc_history)
    /\ cc_since_tag \in BOOLEAN
    /\ cc_result = Pending
    /\ cc_rv_result = Pending

\* a call of version.version.get_commit_count
GetCommitCount ==
    /\ cc_result.status = "pending"
    /\ \E git_ok \in BOOLEAN :
          cc_result' = get_commit_count(cc_history, cc_tag_at, cc_since_tag, git_ok)
    /\ UNCHANGED <<cc_history, cc_tag_at, cc_since_tag, cc_rv_result>>
    /\ UNCHANGED notCountVars

\* a call of release_version.version.get_commit_count
RvGetCommitCount ==
    /\ cc_rv_result.status = "pending"
    /\ \E git_ok \in BOOLEAN :
          cc_rv_result' = rv_get_commit_count(cc_history, cc_tag_at, cc_since_tag, git_ok)
    /\ UNCHANGED <<cc_history, cc_tag_at, cc_since_tag, cc_result>>
    /\ UNCHANGED notCountVars

(***************************************************************************)
(* Runs of a version script, one after another, on one repository          *)
(***************************************************************************)
\* the tag and the merged PRs of the repository; they stay as they are from
\* run to run, and git and GitHub answer
Repositories ==
    { repo \in Envs :
        /\ repo.manifest = NoManifest
        /\ ~repo.timestamp_fail /\ ~repo.prs_fail /\ ~repo.count_fail
        /\ repo.commit_count <= 1 }
\* the manifest before the first run
FirstManifests ==
    { CargoToml(<<"0", ".", "1", ".", "0">>, "name"),
      CargoToml(<<"1", ".", "0", ".", "2">>, "name") }
ScriptModes ==
    { <<"version", "release">>, <<"version", "pr">>, <<"release-version", "release">> }

\* no script has run
IdleRuns ==
    /\ rn_script = <<"version", "release">>
    /\ rn_repo = IdleEnv
    /\ rn_file = NoCargoToml
    /\ rn_runs = <<>>

InitRuns ==
    /\ rn_script \in ScriptModes
    /\ rn_repo \in Repositories
    /\ rn_file \in FirstManifests
    /\ rn_runs = <<>>

\* the run is on record and the manifest is what it left
Ran(run) ==
    /\ rn_runs' = Append(rn_runs, run)
    /\ rn_file' = run.after

\* the script runs once more
RunScript ==
    /\ Len(rn_runs) < MaxRuns
    /\ \E io \in IoOutcomes, lock_ok \in BOOLEAN, output_ok \in BOOLEAN :
          Ran(RunOnce(rn_script[1], rn_script[2], rn_repo, rn_file, io, lock_ok, output_ok))
    /\ UNCHANGED <<rn_script, rn_repo>>
    /\ UNCHANGED notRunsVars

(***************************************************************************)
(* A run of pr-labels                                                      *)
(***************************************************************************)
\* the labels the repository has before the run
RepoLabelSets ==
    { {}, {"bug"}, {"version: major", "breaking", "bug"}, LabelsToRemove }
\* the faults of the removals: none, a failure, a label gone in the meantime
RunFaults ==
    { [l \in LabelsToRemove |-> "none"],
      [l \in LabelsToRemove |-> IF l = "version: patch" THEN "error" ELSE "none"],
      [l \in LabelsToRemove |-> IF l = "breaking" THEN "gone" ELSE "none"] }

NotLabelled == Labelled(-1, {}, {}, <<>>)

\* pr-labels is not running
IdleDryRun ==
    /\ dr_repo_labels = {}
    /\ dr_on = {}
    /\ dr_fault = [l \in LabelsToRemove |-> "none"]
    /\ dr_decided = <<"version: patch", "">>
    /\ dr_dry_run = FALSE
    /\ dr_result = NotLabelled

InitDryRun ==
    /\ dr_repo_labels \in RepoLabelSets
    /\ dr_on \in PrLabelSets
    /\ dr_fault \in RunFaults
    /\ dr_decided \in DecidedLabels
    /\ dr_dry_run \in BOOLEAN
    /\ dr_result = NotLabelled

\* a run of pr-labels, with --dry-run when dr_dry_run
RunLabeller ==
    /\ dr_result.exit = -1
    /\ \E list_ok \in BOOLEAN, create_ok \in BOOLEAN, has_commits \in BOOLEAN,
          add_fault \in AddFaults :
          dr_result' = LabelRun(ensure_labels_exist(dr_repo_labels, dr_dry_run,
                                                    list_ok, create_ok),
                                dr_on, dr_fault, dr_decided, add_fault, dr_dry_run,
                                has_commits)
    /\ UNCHANGED <<dr_repo_labels, dr_on, dr_fault, dr_decided, dr_dry_run>>
    /\ UNCHANGED notDryRunVars

(***************************************************************************)
(* The tag before a tag                                                    *)
(***************************************************************************)
\* the tag names of a repository: releases, two names of one version, and
\* names that are no versions
TagNames ==
    { <<"v", "1", ".", "0", ".", "0">>,
      <<"1", ".", "0">>,
      <<"v", "1", ".", "2", ".", "0">>,
      <<"v", "1", ".", "1", "0", ".", "0">>,
      <<"l", "a", "t", "e", "s", "t">>,
      <<"v", "x">> }
\* what repo.get_tags() lists: at most MaxTags tags, each name once
TagLists ==
    { tags \in UNION { [1..n -> TagNames] : n \in 0..MaxTags } :
        \A i, j \in 1..Len(tags) : tags[i] = tags[j] => i = j }

\* no tag is looked for
IdleTags ==
    /\ tg_tags = <<>>
    /\ tg_current = <<>>
    /\ tg_result = Pending

InitTags ==
    /\ tg_tags \in TagLists
    /\ tg_current \in TagNames
    /\ tg_result = Pending

\* a call of get_previous_tag
GetPreviousTag ==
    /\ tg_result.status = "pending"
    /\ tg_result' = Returned(get_previous_tag(tg_tags, tg_current))
    /\ UNCHANGED <<tg_tags, tg_current>>
    /\ UNCHANGED notTagsVars

(***************************************************************************)
(* The status mark of a test summary                                       *)
(***************************************************************************)
\* the totals of a test run
TestCounts == 0..MaxTests

\* no summary is made
IdleSummary ==
    /\ ts_passed = 0
    /\ ts_failed = 0
    /\ ts_skipped = 0
    /\ ts_emoji = "none"

InitSummary ==
    /\ ts_passed \in TestCounts
    /\ ts_failed \in TestCounts
    /\ ts_skipped \in TestCounts
    /\ ts_emoji = "none"

\* a call of get_status_emoji
GetStatusEmoji ==
    /\ ts_emoji = "none"
    /\ ts_emoji' = get_status_emoji(ts_passed, ts_failed, ts_skipped)
    /\ UNCHANGED <<ts_passed, ts_failed, ts_skipped>>
    /\ UNCHANGED notSummaryVars

(***************************************************************************)
(* Labelling a pull request and reading its labels at the release          *)
(***************************************************************************)
\* the labels a pull request carries that say nothing about the version
OtherLabelSets == { {}, {"bug"} }

\* no pull request is labelled
IdleAgree ==
    /\ ag_commits = <<>>
    /\ ag_title = <<>>
    /\ ag_body = <<>>
    /\ ag_on = {}
    /\ ag_decision = PendingMain
    /\ ag_bump = "pending"

InitAgree ==
    /\ ag_commits \in CommitLists
    /\ ag_title \in PrTitles
    /\ ag_body \in PrBodies
    /\ ag_on \in OtherLabelSets
    /\ ag_decision = PendingMain
    /\ ag_bump = "pending"

\* a run of pr-labels on the pull request: the decision and the labels put on
LabelPullRequest ==
    /\ ag_decision = PendingMain
    /\ ag_decision' = pl_main(ag_commits, ag_title, ag_body)
    /\ ag_on' = LabelledBy(pl_main(ag_commits, ag_title, ag_body), ag_on).on
    /\ UNCHANGED <<ag_commits, ag_title, ag_body, ag_bump>>
    /\ UNCHANGED notAgreeVars

\* determine_bump_type on the merged pull request
BumpFromLabels ==
    /\ ag_decision # PendingMain
    /\ ag_bump = "pending"
    /\ ag_bump' = determine_bump_type(<<ag_on>>)
    /\ UNCHANGED <<ag_commits, ag_title, ag_body, ag_on, ag_decision>>
    /\ UNCHANGED notAgreeVars

(***************************************************************************)
(* The release notes                                                       *)
(***************************************************************************)
\* what the parser can say of a commit
CommitKinds == [category : {"feat", "fix"}, breaking : BOOLEAN]
\* the commits of one section, named by the section and their place in it
SectionCommits(section, kinds) ==
    [i \in 1..Len(kinds) |->
        NoteCommit(<<section, i>>, kinds[i].category, kinds[i].breaking)]
CommitSections(section) ==
    { SectionCommits(section, kinds) :
        kinds \in UNION { [1..n -> CommitKinds] : n \in 0..MaxSectionCommits } }

\* no release notes are written
IdleNotes ==
    /\ rn_application = <<>>
    /\ rn_other = <<>>
    /\ rn_lines = <<>>

InitNotes ==
    /\ rn_application \in CommitSections("application")
    /\ rn_other \in CommitSections("other")
    /\ rn_lines = <<>>

\* a call of generate_markdown
GenerateMarkdown ==
    /\ rn_lines = <<>>
    /\ rn_lines' = generate_markdown(rn_application \o rn_other, rn_application, rn_other)
    /\ UNCHANGED <<rn_application, rn_other>>
    /\ UNCHANGED notNotesVars

(***************************************************************************)
(* The release version of a repository                                     *)
(***************************************************************************)
\* no release version is being calculated
IdleNewVersion ==
    /\ nv_env = IdleEnv
    /\ nv_outcome = PendingOutcome
    /\ nv_rv_outcome = PendingOutcome

InitNewVersion ==
    /\ nv_env \in Envs
    \* a failing call answers nothing
    /\ nv_env.prs_fail => nv_env.prs = <<>>
    /\ nv_env.count_fail => nv_env.commit_count = 0
    /\ nv_outcome = PendingOutcome
    /\ nv_rv_outcome = PendingOutcome

\* a call of version.version.calculate_new_version
CalculateNewVersion ==
    /\ nv_outcome.result.status = "pending"
    /\ nv_outcome' = calculate_new_version(nv_env)
    /\ UNCHANGED <<nv_env, nv_rv_outcome>>
    /\ UNCHANGED notNewVersionVars

\* a call of release_version.version.calculate_new_version
RvCalculateNewVersion ==
    /\ nv_rv_outcome.result.status = "pending"
    /\ nv_rv_outcome' = rv_calculate_new_version(nv_env)
    /\ UNCHANGED <<nv_env, nv_outcome>>
    /\ UNCHANGED notNewVersionVars

(***************************************************************************)
(* Specifications: one per script function under study                     *)
(***************************************************************************)
IdleCore == IdleCalc /\ IdlePrv /\ IdleParse /\ IdleLabels
IdleIo == IdleCargo /\ IdleApply /\ IdleScript /\ IdleBump /\ IdleGithub /\ IdleChecksum /\ IdleNewVersion /\ IdleCount /\ IdleRuns /\ IdleDryRun /\ IdleTags /\ IdleSummary /\ IdleAgree /\ IdleNotes

NextCalc == CalculateVersion \/ RvCalculateVersion
CalcInit == InitCalc /\ IdlePrv /\ IdleParse /\ IdleLabels /\ IdleIo
SpecCalc == CalcInit /\ [][NextCalc]_vars

NextPrv == CalculatePrVersion
PrvInit == IdleCalc /\ InitPrv /\ IdleParse /\ IdleLabels /\ IdleIo
SpecPrVersion == PrvInit /\ [][NextPrv]_vars

NextParse == RnParseCommitMessage \/ PlParseCommitMessage
ParseInit == IdleCalc /\ IdlePrv /\ InitParse /\ IdleLabels /\ IdleIo
SpecParse == ParseInit /\ [][NextParse]_vars

NextReduce == DetermineVersionBump \/ ParseCommits
ReduceInit == IdleCalc /\ IdlePrv /\ IdleParse /\ InitReduce /\ IdleIo
SpecReduce == ReduceInit /\ [][NextReduce]_vars

NextMain == PrLabelsMain
MainInit == IdleCalc /\ IdlePrv /\ IdleParse /\ InitMain /\ IdleIo
SpecMain == MainInit /\ [][NextMain]_vars

NextCargo == ReadCargoVersion \/ UpdateCargoVersion
CargoInit == IdleCore /\ InitCargo /\ IdleApply /\ IdleScript /\ IdleBump /\ IdleGithub /\ IdleChecksum /\ IdleNewVersion /\ IdleCount /\ IdleRuns /\ IdleDryRun /\ IdleTags /\ IdleSummary /\ IdleAgree /\ IdleNotes
SpecCargo == CargoInit /\ [][NextCargo]_vars

NextApply == LabelerApplyLabels \/ MainApplyLabels
ApplyInit == IdleCore /\ InitApply /\ IdleCargo /\ IdleScript /\ IdleBump /\ IdleGithub /\ IdleChecksum /\ IdleNewVersion /\ IdleCount /\ IdleRuns /\ IdleDryRun /\ IdleTags /\ IdleSummary /\ IdleAgree /\ IdleNotes
SpecApplyLabels == ApplyInit /\ [][NextApply]_vars

NextScript == RunPrLabels \/ RunVersion \/ RunReleaseVersion
ScriptInit == IdleCore /\ InitScript /\ IdleCargo /\ IdleApply /\ IdleBump /\ IdleGithub /\ IdleChecksum /\ IdleNewVersion /\ IdleCount /\ IdleRuns /\ IdleDryRun /\ IdleTags /\ IdleSummary /\ IdleAgree /\ IdleNotes
SpecScript == ScriptInit /\ [][NextScript]_vars

NextBump == DetermineBumpType \/ RvDetermineBumpType
BumpInit == IdleCore /\ InitBump /\ IdleCargo /\ IdleApply /\ IdleScript /\ IdleGithub /\ IdleChecksum /\ IdleNewVersion /\ IdleCount /\ IdleRuns /\ IdleDryRun /\ IdleTags /\ IdleSummary /\ IdleAgree /\ IdleNotes
SpecBump == BumpInit /\ [][NextBump]_vars

NextGithub == GetMergedPrsSince
GithubInit == IdleCore /\ InitGithub /\ IdleCargo /\ IdleApply /\ IdleScript /\ IdleBump /\ IdleChecksum /\ IdleNewVersion /\ IdleCount /\ IdleRuns /\ IdleDryRun /\ IdleTags /\ IdleSummary /\ IdleAgree /\ IdleNotes
SpecMergedPrs == GithubInit /\ [][NextGithub]_vars

NextChecksum == Mkdir \/ CreateTemp \/ WriteTemp \/ FlushTemp \/ FsyncTemp \/ CloseTemp \/ Replace \/ CleanUp
ChecksumInit == IdleCore /\ InitChecksum /\ IdleCargo /\ IdleApply /\ IdleScript /\ IdleBump /\ IdleGithub /\ IdleNewVersion /\ IdleCount /\ IdleRuns /\ IdleDryRun /\ IdleTags /\ IdleSummary /\ IdleAgree /\ IdleNotes
SpecChecksum == ChecksumInit /\ [][NextChecksum]_vars

NextNewVersion == CalculateNewVersion \/ RvCalculateNewVersion
NewVersionInit == IdleCore /\ InitNewVersion /\ IdleCargo /\ IdleApply /\ IdleScript /\ IdleBump /\ IdleGithub /\ IdleChecksum /\ IdleCount /\ IdleRuns /\ IdleDryRun /\ IdleTags /\ IdleSummary /\ IdleAgree /\ IdleNotes
SpecNewVersion == NewVersionInit /\ [][NextNewVersion]_vars

NextCount == GetCommitCount \/ RvGetCommitCount
CountInit == IdleCore /\ InitCount /\ IdleCargo /\ IdleApply /\ IdleScript /\ IdleBump /\ IdleGithub /\ IdleChecksum /\ IdleNewVersion /\ IdleRuns /\ IdleDryRun /\ IdleTags /\ IdleSummary /\ IdleAgree /\ IdleNotes
SpecCommitCount == CountInit /\ [][NextCount]_vars

NextRuns == RunScript
RunsInit == IdleCore /\ InitRuns /\ IdleCargo /\ IdleApply /\ IdleScript /\ IdleBump /\ IdleGithub /\ IdleChecksum /\ IdleNewVersion /\ IdleCount /\ IdleDryRun /\ IdleTags /\ IdleSummary /\ IdleAgree /\ IdleNotes
SpecRuns == RunsInit /\ [][NextRuns]_vars

NextDryRun == RunLabeller
DryRunInit == IdleCore /\ InitDryRun /\ IdleCargo /\ IdleApply /\ IdleScript /\ IdleBump /\ IdleGithub /\ IdleChecksum /\ IdleNewVersion /\ IdleCount /\ IdleRuns /\ IdleTags /\ IdleSummary /\ IdleAgree /\ IdleNotes
SpecLabeller == DryRunInit /\ [][NextDryRun]_vars

NextTags == GetPreviousTag
TagsInit == IdleCore /\ InitTags /\ IdleCargo /\ IdleApply /\ IdleScript /\ IdleBump /\ IdleGithub /\ IdleChecksum /\ IdleNewVersion /\ IdleCount /\ IdleRuns /\ IdleDryRun /\ IdleSummary /\ IdleAgree /\ IdleNotes
SpecTags == TagsInit /\ [][NextTags]_vars

NextSummary == GetStatusEmoji
SummaryInit == IdleCore /\ InitSummary /\ IdleCargo /\ IdleApply /\ IdleScript /\ IdleBump /\ IdleGithub /\ IdleChecksum /\ IdleNewVersion /\ IdleCount /\ IdleRuns /\ IdleDryRun /\ IdleTags /\ IdleAgree /\ IdleNotes
SpecSummary == SummaryInit /\ [][NextSummary]_vars

NextAgree == LabelPullRequest \/ BumpFromLabels
AgreeInit == IdleCore /\ InitAgree /\ IdleCargo /\ IdleApply /\ IdleScript /\ IdleBump /\ IdleGithub /\ IdleChecksum /\ IdleNewVersion /\ IdleCount /\ IdleRuns /\ IdleDryRun /\ IdleTags /\ IdleSummary /\ IdleNotes
SpecLabelsToBump == AgreeInit /\ [][NextAgree]_vars

NextNotes == GenerateMarkdown
NotesInit == IdleCore /\ InitNotes /\ IdleCargo /\ IdleApply /\ IdleScript /\ IdleBump /\ IdleGithub /\ IdleChecksum /\ IdleNewVersion /\ IdleCount /\ IdleRuns /\ IdleDryRun /\ IdleTags /\ IdleSummary /\ IdleAgree
SpecReleaseNotes == NotesInit /\ [][NextNotes]_vars
\* MAJOR.MINOR.PATCH with three non-negative decimal integers
IsCoreVersion(s) ==
    LET parts == SplitOn(s, ".")
    IN Len(parts) = 3 /\ \A k \in 1..3 : IsDigits(parts[k])

(***************************************************************************)
(* C1: for every valid base version X.Y.Z and every commit_count n >= 0,   *)
(* calculate_version (of both packages) returns "X+1.0.0" for MAJOR,       *)
(* "X.(Y+1).0" for MINOR and "X.Y.(Z+n)" for PATCH.                        *)
(***************************************************************************)
ExpectedVersion(x, y, z, bump, n) ==
    CASE bump = "MAJOR" -> FormatNat(x + 1) \o <<".", "0", ".", "0">>
      [] bump = "MINOR" -> FormatNat(x) \o DOT \o FormatNat(y + 1) \o <<".", "0">>
      [] bump = "PATCH" -> FormatNat(x) \o DOT \o FormatNat(y) \o DOT \o FormatNat(z + n)

C1_CalculateVersion ==
    \A x \in Components, y \in Components, z \in Components :
        (base_version = Dotted(x, y, z) /\ commit_count >= 0) =>
            LET expected == Returned(ExpectedVersion(x, y, z, bump_type, commit_count))
            IN /\ cv_result # Pending => cv_result = expected
               /\ rv_result # Pending => rv_result = expected

\* both functions have returned the minor bump "1.10.0" of "1.9.2"
C1_Witness ==
    /\ base_version = <<"1", ".", "9", ".", "2">>
    /\ bump_type = "MINOR"
    /\ cv_result = Returned(<<"1", ".", "1", "0", ".", "0">>)
    /\ rv_result = cv_result

(***************************************************************************)
(* The Conventional Commit header grammar, stated as the set of strings    *)
(* "type", "type(scope)", each optionally followed by "!", then ":" and at *)
(* least one more character                                                *)
(***************************************************************************)
IsWord(p) == Len(p) >= 1 /\ \A i \in DOMAIN p : IsWordChar(p[i])
\* "type" or "type(scope)" with a non-empty scope that holds no ")"
IsTypeScope(p) ==
    \/ IsWord(p)
    \/ \E k \in 1..(Len(p) - 3) :
          /\ IsWord(Take(p, k))
          /\ p[k + 1] = "("
          /\ p[Len(p)] = ")"
          /\ \A i \in (k + 2)..(Len(p) - 1) : p[i] # ")"
\* type(scope)!: subject
IsBangHeader(h) ==
    \E i \in 2..(Len(h) - 2) :
        h[i] = "!" /\ h[i + 1] = ":" /\ IsTypeScope(Take(h, i - 1))
\* type(scope): subject, with or without the "!"
IsConventionalHeader(h) ==
    \/ IsBangHeader(h)
    \/ \E q \in 2..(Len(h) - 1) : h[q] = ":" /\ IsTypeScope(Take(h, q - 1))
\* a "!" immediately before the first ":" of the header
BangBeforeFirstColon(h) ==
    LET q == Find(h, <<":">>) IN q >= 2 /\ h[q - 1] = "!"
HasBreakingMarker(text) ==
    Contains(text, BREAKING_CHANGE) \/ Contains(text, BREAKING_HYPHEN_CHANGE)

\* MAJOR > MINOR > PATCH; no signal is below PATCH
Level(labels) ==
    CASE labels.version_label = "version: major" -> 3
      [] labels.version_label = "version: minor" -> 2
      [] labels.version_label \in {"version: patch", "None"} -> 1
      [] OTHER -> 0
\* the classification of one commit by the commit parser of pr-labels
ClassOf(m) ==
    LET parsed == pl_parse_commit_message(m)
    IN IF parsed.is_breaking THEN 3
       ELSE IF parsed.type \in {FEAT, FEATURE} THEN 2
       ELSE 1
MaxClass(cs) ==
    IF cs = <<>> THEN 1
    ELSE CHOOSE c \in {ClassOf(cs[i]) : i \in DOMAIN cs} :
            \A i \in DOMAIN cs : ClassOf(cs[i]) <= c

(***************************************************************************)
(* C2: for every list of commit messages, the decision of both reducers    *)
(* (determine_version_bump, and parse_commits whose None means PATCH) is   *)
(* the maximum of the per-commit classifications: MAJOR iff the parser     *)
(* marks the commit breaking, else MINOR iff its type is feat or feature   *)
(* (with or without a scope), else PATCH.                                  *)
(***************************************************************************)
C2_ReducersAreMax ==
    /\ dvb_labels # PendingLabels => Level(dvb_labels) = MaxClass(commits)
    /\ pc_labels # PendingLabels => Level(pc_labels) = MaxClass(commits)

\* the part of C2 that the code keeps: determine_version_bump is the maximum
C2_DetermineVersionBumpIsMax ==
    dvb_labels # PendingLabels => Level(dvb_labels) = MaxClass(commits)

(***************************************************************************)
(* C3: for every commit list with at least one breaking commit, the        *)
(* reducer returns MAJOR ("version: major" with "breaking"), whatever the  *)
(* position of the breaking commit and whatever the other commits.         *)
(***************************************************************************)
HasBreakingCommit == \E i \in DOMAIN commits : pl_parse_commit_message(commits[i]).is_breaking

C3_BreakingWins ==
    HasBreakingCommit =>
        /\ dvb_labels # PendingLabels => dvb_labels = MajorLabels
        /\ pc_labels # PendingLabels => pc_labels = MajorLabels

\* the part of C3 that the code keeps: determine_version_bump returns MAJOR
C3_DetermineVersionBumpBreakingWins ==
    (HasBreakingCommit /\ dvb_labels # PendingLabels) => dvb_labels = MajorLabels

(***************************************************************************)
(* C4 (as claimed): for every message whose header has a "!" immediately   *)
(* before its first ":", parse_commit_message returns is_breaking = true.  *)
(***************************************************************************)
C4_BangBeforeFirstColon ==
    BangBeforeFirstColon(FirstLine(message)) =>
        /\ "release-notes" \in parsed_by => rn_parsed.is_breaking
        /\ "pr-labels" \in parsed_by => pl_parsed.is_breaking

(***************************************************************************)
(* C4 (amended): for every message whose header is a conventional header   *)
(* with the "!" indicator - type, optional (scope), "!" directly before    *)
(* the ":", and a non-empty rest - both parsers return is_breaking = true. *)
(***************************************************************************)
C4_BangHeaderIsBreaking ==
    IsBangHeader(FirstLine(message)) =>
        /\ "release-notes" \in parsed_by => rn_parsed.is_breaking
        /\ "pr-labels" \in parsed_by => pl_parsed.is_breaking

\* "feat(api)!: x" without a body has been parsed as breaking by both parsers
C4_Witness ==
    /\ message = FEAT \o <<"(", "a", "p", "i", ")", "!", ":", " ", "x">>
    /\ parsed_by = {"release-notes", "pr-labels"}
    /\ rn_parsed.is_breaking
    /\ pl_parsed.is_breaking

(***************************************************************************)
(* C5: for every message whose header does not match the conventional      *)
(* grammar, both parsers return type "other" and is_breaking = false,      *)
(* whatever the body holds (a BREAKING CHANGE: marker included).           *)
(***************************************************************************)
C5_FallbackNeverBreaking ==
    ~IsConventionalHeader(FirstLine(message)) =>
        /\ "release-notes" \in parsed_by =>
              rn_parsed.type = OTHER_TYPE /\ ~rn_parsed.is_breaking
        /\ "pr-labels" \in parsed_by =>
              pl_parsed.type = OTHER_TYPE /\ ~pl_parsed.is_breaking

\* the part of C5 that the code keeps: the release-notes parser
C5_ReleaseNotesFallback ==
    (~IsConventionalHeader(FirstLine(message)) /\ "release-notes" \in parsed_by) =>
        rn_parsed.type = OTHER_TYPE /\ ~rn_parsed.is_breaking

(***************************************************************************)
(* C6: in pr-labels main the final version label is the higher of the      *)
(* commit-derived and the PR title/body-derived label: a PR signal of      *)
(* major always yields major, a PR signal of minor replaces only a         *)
(* commit-derived patch, and the final label is never lower than the       *)
(* commit-derived one.                                                     *)
(***************************************************************************)
C6_FinalIsHigher ==
    main_result.exit_code = 0 =>
        LET c == main_result.commit_labels
            p == main_result.pr_labels
            f == main_result.labels
        IN /\ c = determine_version_bump(commits)
           /\ f \in {MajorLabels, MinorLabels, PatchLabels}
           /\ Level(f) = Max(Level(c), Level(p))
           /\ p = MajorLabels => f = MajorLabels
           /\ (p = MinorLabels /\ c = PatchLabels) => f = MinorLabels
           /\ (p = MinorLabels /\ c # PatchLabels) => f = c
           /\ Level(f) >= Level(c)

\* a feat title over breaking commits: the decision stays major
C6_Witness ==
    /\ main_result.exit_code = 0
    /\ main_result.commit_labels = MajorLabels
    /\ main_result.pr_labels = MinorLabels
    /\ main_result.labels = MajorLabels

(***************************************************************************)
(* C7 (as claimed): if the PR title or the PR body contains a breaking     *)
(* marker ("BREAKING CHANGE:" or "BREAKING-CHANGE:"), or the PR title      *)
(* matches the conventional "type!:" header, the final decision of         *)
(* pr-labels is MAJOR.                                                     *)
(***************************************************************************)
C7_MarkerAnywhereIsMajor ==
    ( /\ main_result.exit_code = 0
      /\ \/ HasBreakingMarker(pr_title)
         \/ HasBreakingMarker(pr_body)
         \/ IsBangHeader(FirstLine(pr_title)) )
    => main_result.labels = MajorLabels

(***************************************************************************)
(* C7 (amended): if the PR body contains a breaking marker, or the PR      *)
(* title matches the conventional "type!:" header, the final decision of   *)
(* pr-labels (taken when the PR has commits) is MAJOR; a marker in the     *)
(* first line of the title does not by itself make it MAJOR.               *)
(***************************************************************************)
C7_BodyMarkerOrBangTitleIsMajor ==
    ( /\ main_result.exit_code = 0
      /\ \/ HasBreakingMarker(pr_body)
         \/ IsBangHeader(FirstLine(pr_title)) )
    => main_result.labels = MajorLabels

\* a marker in the PR body alone has raised a patch decision to major
C7_Witness ==
    /\ main_result.exit_code = 0
    /\ HasBreakingMarker(pr_body)
    /\ ~IsBangHeader(FirstLine(pr_title))
    /\ main_result.commit_labels = PatchLabels
    /\ main_result.labels = MajorLabels

(***************************************************************************)
(* C8: for every computed base version X.Y.Z, pr_number >= 1 and non-empty *)
(* alphanumeric commit_sha, calculate_pr_version returns exactly           *)
(* "X.Y.Z-pr<pr_number>+<first min(7, len) characters of commit_sha>", so  *)
(* that splitting the result on "-pr" and "+" recovers pr_number and the   *)
(* shortened SHA.                                                          *)
(***************************************************************************)
\* the number of places where t occurs in s
Count(s, t) == Cardinality({i \in 1..(Len(s) - Len(t) + 1) : StartsAt(s, i, t)})

C8_PrVersionRoundTrip ==
    prv_outcome.result.status = "returned" =>
        LET v == prv_outcome.result.value
            i == Find(v, <<"-", "p", "r">>)
            base == Take(v, i - 1)
            rest == Drop(v, i + 2)
            j == Find(rest, <<"+">>)
            number == Take(rest, j - 1)
            sha == Drop(rest, j)
        IN /\ Count(v, <<"-", "p", "r">>) = 1
           /\ Count(v, <<"+">>) = 1
           /\ j # 0
           /\ IsCoreVersion(base)
           /\ IsDigits(number)
           /\ DigitsToNat(number) = pr_number
           /\ sha = Take(commit_sha, Min(7, Len(commit_sha)))
           /\ v = base \o <<"-", "p", "r">> \o FormatNat(pr_number) \o <<"+">> \o sha

\* PR 123 at a ten-character SHA after tag v1.0.2 and two commits
C8_Witness ==
    /\ pr_number = 123
    /\ Len(commit_sha) > 7
    /\ prv_outcome.result =
          Returned(<<"1", ".", "0", ".", "4", "-", "p", "r", "1", "2", "3", "+",
                     "a", "b", "c", "1", "2", "3", "4">>)

(***************************************************************************)
(* C9: calculate_pr_version returns a version only if pr_number >= 1 and   *)
(* commit_sha is non-empty and alphanumeric; in every other case it raises *)
(* ValueError and returns nothing.                                         *)
(***************************************************************************)
ValidPrArguments ==
    /\ pr_number >= 1
    /\ commit_sha # <<>>
    /\ \A i \in DOMAIN commit_sha : IsAlnumChar(commit_sha[i])

C9_InvalidArgumentsRaiseValueError ==
    prv_outcome # PendingOutcome =>
        /\ prv_outcome.result.status = "returned" => ValidPrArguments
        /\ ~ValidPrArguments =>
              /\ prv_outcome.result.status = "raised"
              /\ prv_outcome.result.exc \in ValueErrors

\* the part of C9 that the code keeps: no version for invalid arguments
C9_ReturnsOnlyForValidArguments ==
    prv_outcome.result.status = "returned" => ValidPrArguments


(***************************************************************************)
(* C10: calculate_version (of both packages) never returns a string that   *)
(* is not MAJOR.MINOR.PATCH with non-negative integer components, whatever *)
(* the base version and the integer commit_count.                          *)
(***************************************************************************)
C10_NeverInvalid ==
    /\ cv_result.status = "returned" => IsCoreVersion(cv_result.value)
    /\ rv_result.status = "returned" => IsCoreVersion(rv_result.value)

\* the part of C10 that the code keeps: the version package validates its output
C10_VersionPackageValidates ==
    cv_result.status = "returned" => IsCoreVersion(cv_result.value)

(***************************************************************************)
(* C11: read_cargo_version raises and returns no version whenever the      *)
(* manifest's package.version begins with "v" or "V", in the version and   *)
(* in the release-version package.                                         *)
(***************************************************************************)
HasVPrefix(file) ==
    /\ file.exists /\ file.toml_ok /\ file.has_package /\ file.has_version
    /\ StartsWith(file.version, <<"v">>) \/ StartsWith(file.version, <<"V">>)

C11_VPrefixRejected ==
    \A i \in DOMAIN cargo_calls :
        (cargo_calls[i].op = "read" /\ HasVPrefix(cargo_calls[i].before)) =>
            cargo_calls[i].result.status = "raised"

\* the part of C11 that the code keeps: the reader of the version package
C11_VersionPackageRejectsVPrefix ==
    \A i \in DOMAIN cargo_calls :
        ( /\ cargo_pkg = "version"
          /\ cargo_calls[i].op = "read"
          /\ HasVPrefix(cargo_calls[i].before) ) =>
            cargo_calls[i].result = Raised("ValueError")

(***************************************************************************)
(* C12: two calls of update_cargo_version in a row with the same version   *)
(* perform exactly one effective write: the first call, made with a        *)
(* version the reader accepts that differs from the one of the (readable)  *)
(* manifest and with a file system that works, writes and returns True;    *)
(* the second returns False and leaves the file as it is.                  *)
(***************************************************************************)
ReaderAccepts(version) ==
    CallRead(cargo_pkg, CargoToml(version, "name")).status = "returned"

FirstOfTwoUpdates(i) ==
    /\ i + 1 \in DOMAIN cargo_calls
    /\ cargo_calls[i].op = "update"
    /\ cargo_calls[i + 1].op = "update"
    /\ cargo_calls[i].version = cargo_calls[i + 1].version
    /\ cargo_calls[i].io = "ok"
    /\ ReaderAccepts(cargo_calls[i].version)
    /\ CallRead(cargo_pkg, cargo_calls[i].before).status = "returned"
    /\ CallRead(cargo_pkg, cargo_calls[i].before).value # cargo_calls[i].version

C12_SecondUpdateIsNoOp ==
    \A i \in DOMAIN cargo_calls :
        FirstOfTwoUpdates(i) =>
            /\ cargo_calls[i].result.status = "returned"
            /\ cargo_calls[i].result.value = TRUE
            /\ cargo_calls[i].result.wrote
            /\ cargo_calls[i].result.file # cargo_calls[i].before
            /\ cargo_calls[i + 1].before = cargo_calls[i].result.file
            /\ cargo_calls[i + 1].result.status = "returned"
            /\ cargo_calls[i + 1].result.value = FALSE
            /\ ~cargo_calls[i + 1].result.wrote
            /\ cargo_calls[i + 1].result.file = cargo_calls[i + 1].before
            /\ cargo_calls[i + 1].result.file = cargo_calls[i].result.file

\* 0.1.0 has been updated to 0.2.0 twice: True, then False
C12_Witness ==
    /\ Len(cargo_calls) = 2
    /\ FirstOfTwoUpdates(1)
    /\ cargo_calls[1].before.version = <<"0", ".", "1", ".", "0">>
    /\ cargo_calls[1].version = <<"0", ".", "2", ".", "0">>
    /\ cargo_calls[1].result.value = TRUE
    /\ cargo_calls[2].result.value = FALSE
    /\ cargo_calls[2].result.status = "returned"

(***************************************************************************)
(* C13: whenever update_cargo_version returns True, a subsequent           *)
(* read_cargo_version returns exactly the requested version, and every     *)
(* other entry of the manifest is unchanged.                               *)
(***************************************************************************)
ReturnedTrue(call) ==
    call.op = "update" /\ call.result.status = "returned" /\ call.result.value = TRUE

C13_UpdateLandsAndKeepsTheRest ==
    \A i \in DOMAIN cargo_calls :
        ReturnedTrue(cargo_calls[i]) =>
            /\ CallRead(cargo_pkg, cargo_calls[i].result.file)
                  = Returned(cargo_calls[i].version)
            /\ cargo_calls[i].result.file.others = cargo_calls[i].before.others
            /\ cargo_calls[i].result.file
                  = [cargo_calls[i].before EXCEPT !.version = cargo_calls[i].version]
            /\ (i + 1 \in DOMAIN cargo_calls /\ cargo_calls[i + 1].op = "read") =>
                  cargo_calls[i + 1].result = Returned(cargo_calls[i].version)

\* a manifest with [dependencies] was updated to 0.2.0 and then read
C13_Witness ==
    /\ Len(cargo_calls) = 2
    /\ ReturnedTrue(cargo_calls[1])
    /\ cargo_calls[1].before.others = "name, [dependencies]"
    /\ cargo_calls[2].op = "read"
    /\ cargo_calls[2].result = Returned(<<"0", ".", "2", ".", "0">>)
    /\ cargo_file.others = "name, [dependencies]"

(***************************************************************************)
(* C14: when update_cargo_version raises, no partial or corrupt manifest   *)
(* is left behind: the file still holds its previous content, in           *)
(* particular a version that read_cargo_version accepts.                   *)
(***************************************************************************)
C14_FailedUpdateLeavesFile ==
    \A i \in DOMAIN cargo_calls :
        (cargo_calls[i].op = "update" /\ cargo_calls[i].result.status = "raised") =>
            /\ cargo_calls[i].result.file = cargo_calls[i].before
            /\ CallRead(cargo_pkg, cargo_calls[i].before).status = "returned" =>
                  CallRead(cargo_pkg, cargo_calls[i].result.file).status = "returned"

(***************************************************************************)
(* C15: removing a conflicting label                                       *)
(***************************************************************************)
\* the removal calls of the run
RemovalCalls == { i \in 1..Len(al_run.calls) : al_run.calls[i].op = "remove" }
\* a removal of the run failed with something other than a 404
RemovalFailed == \E i \in RemovalCalls : al_run.calls[i].answer \notin {200, 404}
\* the run stopped at its first failed removal: it raised and made no call after it
AbortedAtFailure ==
    /\ al_run.status = "raised"
    /\ al_run.calls[Len(al_run.calls)].op = "remove"
    /\ al_run.calls[Len(al_run.calls)].answer \notin {200, 404}

\* a 404 alone never stops the run: with no other fault, the run returns
\* and the decided labels are on the pull request
NotFoundIsNoOp ==
    (/\ al_by # "none"
     /\ ~al_dry_run
     /\ ~RemovalFailed
     /\ al_add_fault = "none")
    => /\ al_run.status = "returned"
       /\ al_labels[1] \in al_run.on

\* C15: on both removal paths (labeler.remove_label and the removal loop of
\* __main__.apply_labels) a 404 answer to a removal is a no-op that does not
\* abort the run, and any other removal failure is raised and aborts the
\* labelling
C15_RemovalFailureAborts ==
    /\ NotFoundIsNoOp
    /\ (al_by # "none" /\ RemovalFailed) => AbortedAtFailure

\* the part of C15 that the labeler path satisfies
C15_LabelerRemovalFailureAborts ==
    al_by = "labeler" => C15_RemovalFailureAborts
\* a labeler run that met a 404 and then a failed removal
C15_LabelerWitness ==
    /\ al_by = "labeler"
    /\ \E i \in RemovalCalls : al_run.calls[i].answer = 404
    /\ RemovalFailed

(***************************************************************************)
(* C16: a missing token, repository or PR number                           *)
(***************************************************************************)
\* a value the script that ran requires is missing from its environment
RequiredValueMissing ==
    \/ sc_script # "none" /\ (sc_env.token = "" \/ sc_env.repository = "")
    \/ sc_script = "pr-labels" /\ PrNumberGiven(sc_env) = <<>>
    \/ sc_script = "version" /\ sc_env.mode = "pr" /\ sc_env.pr_number = <<>>

Happened(event) == \E i \in 1..Len(sc_result.events) : sc_result.events[i] = event

CarriesMajor(labels) == "version: major" \in labels \/ "breaking" \in labels
CarriesMinor(labels) == "version: minor" \in labels \/ "feature" \in labels
\* the bump type C17 asks for
ExpectedBump(prs) ==
    IF \E i \in 1..Len(prs) : CarriesMajor(prs[i]) THEN "MAJOR"
    ELSE IF \E i \in 1..Len(prs) : CarriesMinor(prs[i]) THEN "MINOR"
    ELSE "PATCH"
\* the orders the PRs can be listed in
Orders(n) == { p \in [1..n -> 1..n] : \A i, j \in 1..n : p[i] = p[j] => i = j }
Reordered(prs, p) == [i \in 1..Len(prs) |-> prs[p[i]]]

\* C17: determine_bump_type of both packages returns MAJOR iff some PR
\* carries 'version: major' or 'breaking', otherwise MINOR iff some PR
\* carries 'version: minor' or 'feature', otherwise PATCH (also for no PR at
\* all), whatever the order of the PRs and whatever other labels they carry
C17_BumpTypeOfLabels ==
    /\ bt_result # "pending" =>
          /\ bt_result = ExpectedBump(bt_prs)
          /\ \A p \in Orders(Len(bt_prs)) :
                determine_bump_type(Reordered(bt_prs, p)) = bt_result
    /\ bt_rv_result # "pending" =>
          /\ bt_rv_result = ExpectedBump(bt_prs)
          /\ \A p \in Orders(Len(bt_prs)) :
                rv_determine_bump_type(Reordered(bt_prs, p)) = bt_rv_result

\* both functions answered MAJOR for a list whose last PR asks for less than
\* an earlier one
C17_Witness ==
    /\ Len(bt_prs) >= 2
    /\ CarriesMajor(bt_prs[1])
    /\ CarriesMinor(bt_prs[1])
    /\ ~CarriesMajor(bt_prs[Len(bt_prs)])
    /\ bt_result = "MAJOR"
    /\ bt_rv_result = "MAJOR"

(***************************************************************************)
(* C18: the pull requests merged since a timestamp                         *)
(***************************************************************************)
\* the numbers of the PRs of a list
Numbers(prs) == { prs[i].number : i \in 1..Len(prs) }
\* the PRs of the listing merged strictly after t
MergedAfter(listing, t) ==
    { listing[i].number : i \in { j \in 1..Len(listing) :
          listing[j].merged_at # None /\ listing[j].merged_at > t } }
\* the place where the loop stops early (0 when it does not)
StopsAt(listing, t) ==
    IF \E i \in 1..Len(listing) : listing[i].updated_at < t
    THEN CHOOSE i \in 1..Len(listing) :
            /\ listing[i].updated_at < t
            /\ \A j \in 1..(i - 1) : listing[j].updated_at >= t
    ELSE 0

\* C18: given closed PRs listed by descending updated_at with merged_at <=
\* updated_at, get_merged_prs_since(t) returns exactly the PRs whose merged_at
\* is strictly greater than t, each once: unmerged PRs and PRs merged at or
\* before t are left out, and the early stop at the first PR with
\* updated_at < t misses no PR merged after t
C18_ExactlyMergedAfter ==
    (IsListing(gh_listing) /\ gh_result.status = "returned")
    => /\ Numbers(gh_result.value) = MergedAfter(gh_listing, gh_since)
       /\ Len(gh_result.value) = Cardinality(MergedAfter(gh_listing, gh_since))

\* the loop took a PR, then stopped early with a merged PR still behind the stop
C18_Witness ==
    /\ gh_result.status = "returned"
    /\ StopsAt(gh_listing, gh_since) \in 2..(Len(gh_listing) - 1)
    /\ gh_listing[Len(gh_listing)].merged_at # None
    /\ Len(gh_result.value) >= 1

(***************************************************************************)
(* C19: the checksum file is written atomically                            *)
(***************************************************************************)
\* the output path is as it was before the call or holds the whole line
OutputNeverPartial == ck_out \in {ck_before, "complete"}
\* the call is over
CallOver == ck_pc \in {"returned", "raised"}

\* C19: at every point during write_checksum_atomic the output path is in
\* its previous state or holds the complete checksum line, never a partial
\* one, and after the call returns or raises no temporary file created by
\* it remains in the output directory
C19_AtomicAndNoTempLeft ==
    /\ OutputNeverPartial
    /\ CallOver => ck_temp = "absent"

\* the part of C19 that holds: the output path is never partial, a call that
\* returns has put the whole line there and left no temporary file
C19_AtomicOutput ==
    /\ OutputNeverPartial
    /\ ck_pc = "returned" => (ck_out = "complete" /\ ck_temp = "absent")
\* a call that replaced an old file
C19_ReturnedWitness ==
    /\ ck_pc = "returned"
    /\ ck_before = "old"
    /\ ck_out = "complete"

(***************************************************************************)
(* C20: an invalid tag is refused before anything is looked up             *)
(***************************************************************************)
\* the latest tag, its leading 'v' removed, is not a valid version
InvalidTag ==
    /\ nv_env.latest_tag # <<>>
    /\ ~Version(LStripV(nv_env.latest_tag)).valid
\* the call raised ValueError having used "git describe" alone
RefusedAtOnce(outcome) ==
    /\ outcome.result.status = "raised"
    /\ outcome.result.exc \in ValueErrors
    /\ outcome.trace = <<"git describe">>

\* C20: when the latest git tag without its leading 'v' is not a valid
\* version, calculate_new_version of both packages raises ValueError before
\* the tag's timestamp is looked up, the merged PRs are fetched or the
\* commits are counted
C20_InvalidTagRefusedAtOnce ==
    InvalidTag =>
        /\ nv_outcome.result.status # "pending" => RefusedAtOnce(nv_outcome)
        /\ nv_rv_outcome.result.status # "pending" => RefusedAtOnce(nv_rv_outcome)

\* the part of C20 that holds: the version package refuses the tag at once
C20_VersionPackageRefusesAtOnce ==
    (InvalidTag /\ nv_outcome.result.status # "pending") => RefusedAtOnce(nv_outcome)
\* the version package refused an invalid tag
C20_VersionPackageWitness ==
    InvalidTag /\ RefusedAtOnce(nv_outcome)

(***************************************************************************)
(* C21: the commit count leaves out commits outside the application paths  *)
(***************************************************************************)
\* the commit touches src/, Cargo.toml or Cargo.lock
TouchesApplication(commit) ==
    \E path \in commit :
        \/ path.dir = "src"
        \/ path.dir = "" /\ path.name \in {"Cargo.toml", "Cargo.lock"}
\* the commits after the latest tag that touch the application paths
ApplicationCommitsSinceTag ==
    Cardinality({ i \in (cc_tag_at + 1)..Len(cc_history) :
                    TouchesApplication(cc_history[i]) })
CountIs(result, n) == result.status = "returned" => result.value = n

\* C21: the commit count of both packages counts only the commits after the
\* latest tag that modify src/, Cargo.toml or Cargo.lock; commits touching
\* only other files do not add to it
C21_OnlyApplicationCommitsCount ==
    cc_since_tag =>
        /\ CountIs(cc_result, ApplicationCommitsSinceTag)
        /\ CountIs(cc_rv_result, ApplicationCommitsSinceTag)

\* the part of C21 that holds: the version package's count
C21_VersionPackageCount ==
    cc_since_tag => CountIs(cc_result, ApplicationCommitsSinceTag)
\* the version package left out a commit after the tag
C21_VersionPackageWitness ==
    /\ cc_since_tag
    /\ cc_result.status = "returned"
    /\ cc_result.value < Len(cc_history) - cc_tag_at
    /\ cc_result.value >= 1

(***************************************************************************)
(* C22: an unchanged manifest in release mode                              *)
(***************************************************************************)
RunDid(run, event) == \E i \in 1..Len(run.result.events) : run.result.events[i] = event
\* update_cargo_version reported the version unchanged
Unchanged(run) == run.world \in {"unchanged", "unchanged_output_fails"}
ReleaseMode == rn_script[2] = "release"
\* the run left without "cargo update" and without output, with code 0
SilentExit(run) ==
    /\ run.result.exit = 0
    /\ ~RunDid(run, "lock")
    /\ ~RunDid(run, "manifest")
    /\ ~RunDid(run, "output")

\* in release mode an unchanged manifest ends the run with code 0, without
\* "cargo update" and without output; in PR mode the output is written all
\* the same
UnchangedRuns ==
    \A i \in 1..Len(rn_runs) :
        /\ (ReleaseMode /\ Unchanged(rn_runs[i])) => SilentExit(rn_runs[i])
        /\ (~ReleaseMode /\ rn_runs[i].world = "unchanged")
              => (rn_runs[i].result.exit = 0 /\ RunDid(rn_runs[i], "output"))

\* a second release-mode run that follows a run which went through
SecondRunEmitsNothing ==
    (ReleaseMode /\ Len(rn_runs) = 2 /\ rn_runs[1].result.exit = 0)
    => ~RunDid(rn_runs[2], "output")

\* C22: in release mode, when update_cargo_version reports the version
\* unchanged, main exits with code 0 without running "cargo update" and
\* without writing version or tag_name; in PR mode they are written even
\* when the manifest was unchanged; consequently a second release-mode run
\* over the same tag and PR state emits no output
C22_UnchangedIsSilentInReleaseMode ==
    /\ UnchangedRuns
    /\ SecondRunEmitsNothing

\* the part of C22 that holds: what an unchanged manifest does to a run, and
\* the silent second run when the base version comes from a tag
C22_UnchangedRunsAndTaggedRerun ==
    /\ UnchangedRuns
    /\ rn_repo.latest_tag # <<>> => SecondRunEmitsNothing
\* a release-mode run wrote its output and the next one, on the same tag,
\* found the manifest unchanged and left silently
C22_TaggedRerunWitness ==
    /\ ReleaseMode
    /\ rn_repo.latest_tag # <<>>
    /\ Len(rn_runs) = 2
    /\ RunDid(rn_runs[1], "output")
    /\ Unchanged(rn_runs[2])
    /\ SilentExit(rn_runs[2])

(***************************************************************************)
(* C23: --dry-run changes nothing                                          *)
(***************************************************************************)
MutatingCalls == {"create", "remove", "add"}
Mutated(result) == \E i \in 1..Len(result.calls) : result.calls[i].op \in MutatingCalls

\* C23: with --dry-run pr-labels never calls create_label,
\* remove_from_labels or add_to_labels, whatever labels the repository lacks
\* and the PR carries, and the labels of both are as before after the run
C23_DryRunMutatesNothing ==
    (dr_result.exit # -1 /\ dr_dry_run)
    => /\ ~Mutated(dr_result)
       /\ dr_result.repo_labels = dr_repo_labels
       /\ dr_result.on = dr_on

\* a dry run went through on a repository that lacks labels and a PR that
\* carries labels other than the decided ones
C23_Witness ==
    /\ dr_dry_run
    /\ dr_result.exit = 0
    /\ dr_repo_labels = {"bug"}
    /\ dr_on = {"version: minor", "feature"}
    /\ dr_decided = <<"version: major", "breaking">>
    /\ Len(dr_result.calls) = 3

(***************************************************************************)
(* C24: the previous tag                                                   *)
(***************************************************************************)
\* the places of the valid-version tags in the listing
ValidPlaces == { i \in 1..Len(tg_tags) : TagVersion(tg_tags[i]).valid }
\* tag i stands behind tag j in the list sorted by descending version:
\* it is lower, or equal and listed later
Behind(i, j) ==
    \/ CmpTags(tg_tags[i], tg_tags[j]) < 0
    \/ CmpTags(tg_tags[i], tg_tags[j]) = 0 /\ i > j
\* the places behind the current tag in that list
BehindCurrent ==
    { i \in ValidPlaces :
        \E c \in ValidPlaces : tg_tags[c] = tg_current /\ Behind(i, c) }
\* the tag that directly follows the current one in that list, <<>> for none
ExpectedPrevious ==
    IF BehindCurrent = {} THEN <<>>
    ELSE tg_tags[CHOOSE i \in BehindCurrent :
                    \A k \in BehindCurrent \ {i} : Behind(k, i)]

C25_StatusEmoji ==
    ts_emoji # "none" =>
        /\ ts_failed > 0 => ts_emoji = "failure"
        /\ ts_failed = 0 /\ ts_skipped > 0 => ts_emoji = "warning"
        /\ ts_emoji = "success" => ts_failed = 0 /\ ts_skipped = 0

\* the part of C25 that holds of the code: failures win, and a run with
\* passed and skipped tests and no failure gets the warning mark
C25_FailureAndMixedRuns ==
    ts_emoji # "none" =>
        /\ ts_failed > 0 => ts_emoji = "failure"
        /\ ts_failed = 0 /\ ts_skipped > 0 /\ ts_passed > 0 => ts_emoji = "warning"
        /\ ts_failed = 0 /\ ts_skipped = 0 => ts_emoji = "success"

(***************************************************************************)
(* C26: the labels on the pull request after __main__.apply_labels         *)
(***************************************************************************)
VersionLabels == {"version: major", "version: minor", "version: patch"}
SemanticLabels == {"breaking", "feature"}
\* __main__.apply_labels came to its end without raising, not in a dry run
MainApplied == al_by = "main" /\ ~al_dry_run /\ al_run.status = "returned"
\* the pull request carries the decided version label and no other, and no
\* semantic label but the decided alt label
OnlyDecidedLabels ==
    /\ al_run.on \cap VersionLabels = {al_labels[1]}
    /\ al_run.on \cap SemanticLabels \subseteq {al_labels[2]}

\* C26: after __main__.apply_labels completes without raising, not in a dry
\* run, the pull request carries exactly one version label, the decided
\* one, and no semantic label other than the decided alt label, whatever it
\* carried before and whatever the removals answered without stopping the run
C26_ExactlyTheDecidedLabels == MainApplied => OnlyDecidedLabels

\* the part of C26 that holds of the code: the same when every removal was
\* answered with 200 or 404
C26_DecidedLabelsWhenRemovalsAnswer ==
    (MainApplied /\ ~RemovalFailed) => OnlyDecidedLabels
\* the decided labels replaced the ones the pull request carried
C26_ReplacedWitness ==
    /\ MainApplied
    /\ ~RemovalFailed
    /\ al_on = {"version: minor", "feature"}
    /\ al_labels = <<"version: major", "breaking">>
    /\ al_run.on = {"version: major", "breaking"}

(***************************************************************************)
(* C27: the base version read from the manifest                            *)
(***************************************************************************)
\* what the reader of the version package makes of the manifest
ManifestVersion == read_cargo_version(env.manifest)
\* calculate_pr_version ran with no tag, so that its base is the manifest's version
RanFromManifest ==
    /\ prv_outcome.result.status # "pending"
    /\ pr_number >= 1
    /\ commit_sha # <<>>
    /\ env.latest_tag = <<>>
    /\ ManifestVersion.status = "returned"
\* calculate_version accepts the version as base_version, whatever the bump
AcceptedAsBase(version) ==
    \A bump \in {"MAJOR", "MINOR", "PATCH"} :
        calculate_version(version, bump, env.commit_count).status = "returned"

\* C27: every version string read_cargo_version of the version package
\* returns is accepted by calculate_version as base_version, so a
\* calculation from a manifest the reader accepted never raises
\* InvalidVersion, also not from a manifest that holds X.Y.Z-prN+sha
C27_ReaderAcceptedBaseIsAccepted ==
    RanFromManifest =>
        /\ AcceptedAsBase(ManifestVersion.value)
        /\ prv_outcome.result.exc # "InvalidVersion"

\* the part of C27 that holds of the code: a manifest version of three
\* numbers is accepted
C27_PlainReleaseIsAccepted ==
    (RanFromManifest /\ env.manifest.version = <<"0", ".", "1", ".", "0">>)
    => /\ AcceptedAsBase(ManifestVersion.value)
       /\ prv_outcome.result.exc # "InvalidVersion"
\* the case C27 names: a manifest that a PR-mode run updated
C27_UpdatedManifestIsAccepted ==
    (/\ RanFromManifest
     /\ env.manifest.version
          = <<"1", ".", "0", ".", "2", "-", "p", "r", "1", "+", "a", "b", "c">>)
    => prv_outcome.result.exc # "InvalidVersion"

(***************************************************************************)
(* C28: the bump read from the labels pr-labels put on                     *)
(***************************************************************************)
\* the level a version label stands for
LevelOf(version_label) ==
    IF version_label = "version: major" THEN "MAJOR"
    ELSE IF version_label = "version: minor" THEN "MINOR"
    ELSE "PATCH"

\* C28: for every non-empty commit list and a pull request that carries no
\* other version-related label, the labels pr-labels puts on for its
\* decision make determine_bump_type on that pull request return the level
\* pr-labels decided
C28_BumpAgreesWithDecision ==
    (ag_bump # "pending" /\ ag_commits # <<>>) =>
        /\ ag_decision.exit_code = 0
        /\ ag_decision.labels.version_label \in ag_on
        /\ ag_bump = LevelOf(ag_decision.labels.version_label)

\* the title raised the decision of the commits to major, and the bump is MAJOR
C28_Witness ==
    /\ ag_bump = "MAJOR"
    /\ ag_commits # <<>>
    /\ ag_decision.commit_labels = PatchLabels
    /\ ag_decision.labels = MajorLabels
    /\ ag_on = {"bug", "version: major", "breaking"}

(***************************************************************************)
(* C29: every commit has its entry in the release notes                    *)
(***************************************************************************)
\* the lines of the document that are the entry of a commit
EntryPlaces == { i \in 1..Len(rn_lines) : rn_lines[i].kind \in {"entry", "breaking_entry"} }
\* the number of the entries of the commit
Entries(commit) == Cardinality({ i \in EntryPlaces : rn_lines[i].sha = commit.sha })
\* the count the Statistics section reports under the title
Reported(title) ==
    rn_lines[CHOOSE i \in 1..Len(rn_lines) :
                rn_lines[i].kind = "stat" /\ rn_lines[i].title = title].count
\* the commits given to generate_markdown
GivenCommits ==
    { rn_application[i] : i \in 1..Len(rn_application) }
    \cup { rn_other[i] : i \in 1..Len(rn_other) }

\* C29: every commit given to generate_markdown in application_commits or
\* other_commits has exactly one entry line in the release notes, breaking
\* changes of either list included, so the number of entries is the
\* reported Application Commits plus Other Commits
C29_EveryCommitHasOneEntry ==
    rn_lines # <<>> =>
        /\ \A commit \in GivenCommits : Entries(commit) = 1
        /\ Cardinality(EntryPlaces)
             = Reported("Application Commits") + Reported("Other Commits")

\* the part of C29 that holds of the code: every application commit and
\* every other commit that is no breaking change has exactly one entry,
\* and no commit has two
C29_ApplicationAndPlainCommits ==
    rn_lines # <<>> =>
        /\ \A i \in 1..Len(rn_application) : Entries(rn_application[i]) = 1
        /\ \A i \in 1..Len(rn_other) :
              Entries(rn_other[i]) = (IF rn_other[i].breaking THEN 0 ELSE 1)

(***************************************************************************)
(* C30: calculate_pr_version checks its arguments first                    *)
(***************************************************************************)
\* calculate_pr_version used no collaborator: not git, not the GitHub
\* client, not the manifest
NothingAccessed == prv_outcome.trace = <<>>

\* C30: calculate_pr_version is fail-fast: for pr_number < 1, an empty
\* commit_sha and a commit_sha that is not alphanumeric, the error is
\* raised before the first access to git, to the GitHub client or to the
\* manifest
C30_ArgumentsCheckedFirst ==
    (prv_outcome # PendingOutcome /\ ~ValidPrArguments) =>
        /\ prv_outcome.result.status = "raised"
        /\ NothingAccessed

\* the part of C30 that holds of the code: a pr_number below 1 and an empty
\* commit_sha raise ValueError before anything is accessed
C30_NumberAndEmptyShaCheckedFirst ==
    (prv_outcome # PendingOutcome /\ (pr_number < 1 \/ commit_sha = <<>>)) =>
        /\ prv_outcome.result = Raised("ValueError")
        /\ NothingAccessed
=============================================================================
